---- MODULE Spec2Model ----
(***************************************************************************)
(* A model of nilearn's SpaceNet decoding core:                            *)
(*   nilearn/decoding/objective_functions.py  (gradient_id, div_id)        *)
(*   nilearn/decoding/space_net.py            (alpha grid, early stopping, *)
(*                                             path_scores, screening)     *)
(* Real numbers are exact rationals or scaled integers; IEEE specials      *)
(* (nan, -inf, +inf) are explicit tags.                                    *)
(***************************************************************************)
EXTENDS Integers, Sequences, FiniteSets, TLC

VARIABLES
    \* ---- spatial operators (objective_functions.py) ----
    img,        \* the n-D image handed to gradient_id
    stk,        \* the stacked array handed to div_id
    l1r,        \* l1_ratio as <<numerator, denominator>>
    gout,       \* what gradient_id returned (times the denominator of l1_ratio)
    dout,       \* what div_id returned (times the denominator of l1_ratio)
    ops_pc,     \* which of the two operators has been applied
    \* ---- _space_net_alpha_grid (space_net.py) ----
    ag_in,      \* the arguments of the call
    ag_out,     \* the returned grid (a sequence of floats)
    ag_pc,      \* "in" before the call, "done" after
    \* ---- EarlyStoppingCallback (space_net.py) ----
    es_counter,     \* self.counter
    es_test_scores, \* self.test_scores
    es_ret,         \* what the last call returned: "None", "True" or "False"
    es_moves,       \* how often the solver's iterate changed its score so far
    es_classif,     \* self.is_classif
    es_arg,         \* the content of the array w when the last call got it
    es_w,           \* the content of that array when the call returned
    es_calls,       \* log: the score of the iterate of every call so far
    \* ---- path_scores (space_net.py) ----
    p_args,         \* the arguments of the call
    p_pc,           \* "start", "scan", "refit", "done" or "error"
    p_mask,         \* the local mask: screened, then cropped
    p_cols,         \* the columns of X kept (features of the original mask)
    p_alphas,       \* alphas, sorted in decreasing order
    p_init,         \* init: the warm-start state handed to the next solver call
    p_best,         \* best_init, best_alpha, best_score, best_secundary_score
    p_test_scores,  \* test_scores
    p_stopper,      \* whether the name early_stopper is bound
    p_calls,        \* log: the solver calls made so far
    p_scan,         \* log: score, secondary score and weights of each alpha scanned
    p_ret,          \* the returned tuple
    p_err,          \* the exception raised, "none" if none
    p_selected,     \* the voxels SelectPercentile selected (all without screening)
    \* ---- BaseSpaceNet: __init__, check_params, fit (space_net.py) ----
    f_params,       \* the estimator's parameters (its attributes of the same names)
    f_pc,           \* "new", "constructed", "running", "fitted" or "raised"
    f_changed,      \* whether a parameter was set after construction
    f_err,          \* the exception raised, "none" if none
    f_masker,       \* how often the masker was invoked
    f_attrs,        \* the fitted attributes set so far
    f_cv,           \* cv_: the folds
    f_tasks,        \* the path_scores tasks dispatched, by <<class, fold>>
    f_w,            \* w: one row [n, d] per problem, the vector n / d
    \* ---- path_scores tasks on shared arrays (space_net.py) ----
    h_args,         \* the arrays fit passed, and each task's fold
    h_heap,         \* the array buffers: h_heap[b] is the content of buffer b
    h_env,          \* per task, the buffer and index view of each local name
    h_pc,           \* per task, the statement it is at
    \* ---- BaseSpaceNet.decision_function and predict (space_net.py) ----
    pr_model,       \* the fitted classifier: coef_, intercept_, classes_
    pr_X,           \* the samples, as the masker returns them
    pr_out,         \* what the call returned
    pr_pc,          \* "in", "scored" (decision_function) or "predicted"
    \* ---- mfista: the accelerated proximal-gradient loop ----
    mf_cfg,         \* pure_ista, backtracking, check_monotonous, dgap_factor,
                    \* max_iter
    mf_k,           \* the iterations made
    mf_L,           \* how often backtracking doubled the Lipschitz estimate
    mf_energy,      \* the energy trajectory
    mf_seen,        \* per iteration, whether the callback returned true or
                    \* the duality gap was below its tolerance
    mf_stall,       \* the steps rejected in a row by check_monotonous
    mf_pc,          \* "iterating", "stopped" (with the reason) or "returned"
    mf_w,           \* the current iterate, each entry the number of the
                    \* iteration that produced it (0: the initial point)
    mf_t,           \* how often the momentum recursion was applied to t
    mf_warm,        \* whether this solve was started from a returned state
    mf_ret,         \* the returned triple
    \* ---- Lipschitz constants of the losses (objective_functions.py) ----
    lip_in,         \* the loss, X, y and the two points w and w'
    lip_out,        \* the constant L and grad f(w) - grad f(w')
    lip_pc          \* "in" before the calls, "done" after

opsVars == <<img, stk, l1r, gout, dout, ops_pc>>

gridVars == <<ag_in, ag_out, ag_pc>>

esVars == <<es_counter, es_test_scores, es_ret, es_moves, es_classif, es_arg,
            es_w, es_calls>>

pathVars == <<p_args, p_pc, p_mask, p_cols, p_alphas, p_init, p_best,
              p_test_scores, p_stopper, p_calls, p_scan, p_ret, p_err,
              p_selected>>

fitVars == <<f_params, f_pc, f_changed, f_err, f_masker, f_attrs, f_cv,
             f_tasks, f_w>>

frameVars == <<h_args, h_heap, h_env, h_pc>>

predictVars == <<pr_model, pr_X, pr_out, pr_pc>>

mfistaVars == <<mf_cfg, mf_k, mf_L, mf_energy, mf_seen, mf_stall, mf_pc,
                mf_w, mf_t, mf_warm, mf_ret>>

lipVars == <<lip_in, lip_out, lip_pc>>

vars == <<opsVars, gridVars, esVars, pathVars, fitVars, frameVars,
          predictVars, mfistaVars, lipVars>>

-----------------------------------------------------------------------------
(* Integer helpers *)

Abs(x) == IF x < 0 THEN -x ELSE x

Sign(x) == IF x < 0 THEN -1 ELSE IF x > 0 THEN 1 ELSE 0

RECURSIVE SumOver(_, _)
\* sum of f[x] over the finite set S (a subset of DOMAIN f)
SumOver(f, S) ==
    IF S = {} THEN 0
    ELSE LET x == CHOOSE y \in S : TRUE
         IN  f[x] + SumOver(f, S \ {x})

-----------------------------------------------------------------------------
(* objective_functions.py: gradient_id and div_id                          *)

\* largest absolute pixel value of the arrays tried
MaxPix == 1

\* array shapes tried: 1-D, 2-D and 3-D, some with an axis of length 1
Shapes == {<<3>>, <<1>>, <<2, 2>>, <<1, 3>>, <<2, 1, 2>>}

\* l1_ratio values tried: 0, 1/2 and 1
Ratios == {<<0, 1>>, <<1, 2>>, <<1, 1>>}

\* the index tuples (1-based) of an array of the given shape
Idx(shape) ==
    {x \in [1..Len(shape) -> 1..3] : \A d \in 1..Len(shape) : x[d] <= shape[d]}

\* the index x moved by k along axis d
Shift(x, d, k) == [x EXCEPT ![d] = x[d] + k]

\* np.diff(img, axis=d) written into gradient[d, ..., :-1, ...]; the last
\* index along the axis keeps the 0 of np.zeros
FwdDiff(u, shape, d, x) ==
    IF x[d] < shape[d] THEN u[Shift(x, d, 1)] - u[x] ELSE 0

\* gradient_id(img, l1_ratio), every entry multiplied by den(l1_ratio)
gradient_id(u, shape, r) ==
    [c \in 1..(Len(shape) + 1) |->
        [x \in Idx(shape) |->
            IF c <= Len(shape)
            THEN (r[2] - r[1]) * FwdDiff(u, shape, c, x)
            ELSE r[1] * u[x]]]

\* DivAxis without the last-row correction (the `if len(this_grad) > 1` step)
DivAxisNoLastRow(g, shape, d, x) ==
      (IF x[d] < shape[d] THEN g[d][x] ELSE 0)
    - (IF x[d] > 1 /\ x[d] < shape[d] THEN g[d][Shift(x, d, -1)] ELSE 0)

\* the contribution of axis d to res in div_id's loop:
\*   this_res[:-1]  += this_grad[:-1]
\*   this_res[1:-1] -= this_grad[:-2]
\*   if len(this_grad) > 1: this_res[-1] -= this_grad[-2]
DivAxis(g, shape, d, x) ==
      (IF x[d] < shape[d] THEN g[d][x] ELSE 0)
    - (IF x[d] > 1 /\ x[d] < shape[d] THEN g[d][Shift(x, d, -1)] ELSE 0)
    - (IF shape[d] > 1 /\ x[d] = shape[d] THEN g[d][Shift(x, d, -1)] ELSE 0)

RECURSIVE DivSum(_, _, _, _)
DivSum(g, shape, d, x) ==
    IF d = 0 THEN 0 ELSE DivAxis(g, shape, d, x) + DivSum(g, shape, d - 1, x)

\* div_id(grad, l1_ratio), every entry multiplied by den(l1_ratio)
div_id(g, shape, r) ==
    [x \in Idx(shape) |->
        (r[2] - r[1]) * DivSum(g, shape, Len(shape), x)
        - r[1] * g[Len(shape) + 1][x]]

\* <a, b> for two arrays over the same index set
Inner(a, b) == SumOver([x \in DOMAIN a |-> a[x] * b[x]], DOMAIN a)

\* <g, v> for two stacked arrays
InnerStack(g, v) ==
    SumOver([c \in DOMAIN g |-> Inner(g[c], v[c])], DOMAIN g)

ShapeOf(u) ==
    CHOOSE s \in Shapes : DOMAIN u = Idx(s)

Pix == (0 - MaxPix)..MaxPix

\* every image with pixels in Pix
Images(shape) == [Idx(shape) -> Pix]

\* the stacked arrays of shape (ndim + 1, *shape) with at most one non-zero
\* entry: both sides of the adjointness relation are linear in the stacked
\* array, so these span every stacked array
Stacks(shape) ==
    {[c \in 1..(Len(shape) + 1) |->
        [x \in Idx(shape) |-> IF c = e[1] /\ x = e[2] THEN p ELSE 0]] :
        e \in (1..(Len(shape) + 1)) \X Idx(shape), p \in Pix}

NoArray == <<>>

InitOps ==
    /\ \E s \in Shapes :
          /\ img \in Images(s)
          /\ stk \in Stacks(s)
    /\ l1r \in Ratios
    /\ gout = NoArray
    /\ dout = NoArray
    /\ ops_pc = "in"

IdleOps ==
    /\ img = NoArray /\ stk = NoArray /\ l1r = <<1, 2>>
    /\ gout = NoArray /\ dout = NoArray /\ ops_pc = "idle"

CallGradientId ==
    /\ ops_pc = "in"
    /\ gout' = gradient_id(img, ShapeOf(img), l1r)
    /\ ops_pc' = "grad"
    /\ UNCHANGED <<img, stk, l1r, dout>>

CallDivId ==
    /\ ops_pc = "grad"
    /\ dout' = div_id(stk, ShapeOf(img), l1r)
    /\ ops_pc' = "both"
    /\ UNCHANGED <<img, stk, l1r, gout>>

-----------------------------------------------------------------------------
(* Floats: a finite value is the exact rational n/d (d > 0); nan, -inf and *)
(* +inf are the IEEE specials numpy produces.                              *)

Fin(n, d) == [t |-> "fin", n |-> n, d |-> d]

NaN == [t |-> "nan", n |-> 0, d |-> 1]

NegInf == [t |-> "ninf", n |-> 0, d |-> 1]

PosInf == [t |-> "pinf", n |-> 0, d |-> 1]

IsFin(a) == a.t = "fin"

RECURSIVE FracLess(_, _, _, _)
\* a/b < c/d for b, d > 0, by integer parts and then the reciprocals of the
\* fractional parts (no products, so no overflow)
FracLess(a, b, c, d) ==
    IF (a \div b) # (c \div d) THEN (a \div b) < (c \div d)
    ELSE IF (c % d) = 0 THEN FALSE
    ELSE IF (a % b) = 0 THEN TRUE
    ELSE FracLess(d, c % d, b, a % b)

\* the comparisons of two finite values
FinLess(a, b) == FracLess(a.n, a.d, b.n, b.d)

FinEq(a, b) == ~FinLess(a, b) /\ ~FinLess(b, a)

RECURSIVE Pow(_, _)
Pow(b, k) == IF k = 0 THEN 1 ELSE b * Pow(b, k - 1)

RECURSIVE MaxOfSet(_)
MaxOfSet(S) ==
    LET x == CHOOSE y \in S : TRUE
    IN  IF S = {x} THEN x
        ELSE LET m == MaxOfSet(S \ {x}) IN IF x > m THEN x ELSE m

-----------------------------------------------------------------------------
(* space_net.py: _space_net_alpha_grid                                     *)

\* most alphas asked of the grid
MaxAlphas == 3

\* samples and features of the design matrices tried
GridSamples == 1..2

GridFeatures == 1..2

\* eps is tried as root^-(n_alphas - 1), which keeps the log-spaced points
\* rational: the k-th point is alpha_max / root^k
EpsRoots == {2, 10}

\* the value 1e-3 that replaces l1_ratio == 0
TinyRatio == <<1, 1000>>

\* np.dot(X.T, v)[j] for integer-valued v
XtDot(X, v, j) == SumOver([s \in DOMAIN X |-> X[s][j] * v[s]], DOMAIN X)

\* np.abs(np.dot(X.T, v)).max()
MaxAbsXt(X, v, feats) == MaxOfSet({Abs(XtDot(X, v, j)) : j \in feats})

\* X and y hold integers: the real entries are X[s][j] / xs and y[s] / ys
\* (xs = ys = 1 for integer data; centred data carries the sample count)

\* m * b of the logistic branch: b[y == 1] = m_minus / m, b[y == -1] = -m_plus / m,
\* every other entry the 0 of np.zeros_like
LogisticB(y, ys) ==
    LET m_plus  == Cardinality({s \in DOMAIN y : y[s] = ys})
        m_minus == Cardinality({s \in DOMAIN y : y[s] = 0 - ys})
    IN  [s \in DOMAIN y |->
            IF y[s] = ys THEN m_minus ELSE IF y[s] = 0 - ys THEN 0 - m_plus ELSE 0]

\* alpha_max before the division by n_samples * l1_ratio, as <<num, den>>
RawAlphaMax(X, xs, y, ys, feats, logistic) ==
    LET m    == Cardinality(DOMAIN y)
        viaB == MaxAbsXt(X, LogisticB(y, ys), feats)
    IN  IF logistic /\ viaB # 0 THEN <<viaB, xs * m>>
        ELSE <<MaxAbsXt(X, y, feats), xs * ys>>

\* if l1_ratio == 0.: l1_ratio = 1e-3
GuardedRatio(r) == IF r[1] = 0 THEN TinyRatio ELSE r

\* alpha_max /= (X.shape[0] * l1_ratio)
AlphaMax(X, xs, y, ys, feats, r, logistic) ==
    LET raw == RawAlphaMax(X, xs, y, ys, feats, logistic)
        g   == GuardedRatio(r)
    IN  Fin(raw[1] * g[2], raw[2] * Cardinality(DOMAIN X) * g[1])

\* np.logspace(np.log10(alpha_min), np.log10(alpha_max), num=n)[::-1][k-1]:
\* with alpha_max == 0 both logs are -inf, the linspace step is nan, every
\* point but the end point (which linspace sets to stop) is nan
GridPoint(amax, root, k) ==
    IF amax.n = 0
    THEN IF k = 1 THEN Fin(0, 1) ELSE NaN
    ELSE Fin(amax.n, amax.d * Pow(root, k - 1))

_space_net_alpha_grid(X, xs, y, ys, feats, root, n_alphas, r, logistic) ==
    LET amax == AlphaMax(X, xs, y, ys, feats, r, logistic)
    IN  IF n_alphas = 1 THEN <<amax>>
        ELSE [k \in 1..n_alphas |-> GridPoint(amax, root, k)]

GridValues == {-1, 0, 1}

\* the l1_ratio values tried: those of Ratios, 1e-3 and one in between
GridRatios == Ratios \cup {<<1, 2000>>, <<1, 1000>>}

InitGrid ==
    /\ \E nf \in GridFeatures, X \in [GridSamples -> [GridFeatures -> GridValues]],
          y \in [GridSamples -> GridValues], root \in EpsRoots,
          n \in 1..MaxAlphas, r \in GridRatios, lg \in BOOLEAN :
          /\ \A s \in GridSamples, j \in GridFeatures : j > nf => X[s][j] = 0
          /\ ag_in = [X |-> X, y |-> y, feats |-> 1..nf, root |-> root,
                      n_alphas |-> n, l1_ratio |-> r, logistic |-> lg]
    /\ ag_out = <<>>
    /\ ag_pc = "in"

IdleGrid == ag_in = <<>> /\ ag_out = <<>> /\ ag_pc = "idle"

CallAlphaGrid ==
    /\ ag_pc = "in"
    /\ ag_out' = _space_net_alpha_grid(ag_in.X, 1, ag_in.y, 1, ag_in.feats,
                                        ag_in.root,
                                        ag_in.n_alphas, ag_in.l1_ratio,
                                        ag_in.logistic)
    /\ ag_pc' = "done"
    /\ UNCHANGED ag_in

-----------------------------------------------------------------------------
(* Float arithmetic with the IEEE specials *)

Neg(a) ==
    CASE a.t = "fin"  -> Fin(0 - a.n, a.d)
      [] a.t = "nan"  -> NaN
      [] a.t = "ninf" -> PosInf
      [] a.t = "pinf" -> NegInf

Add(a, b) ==
    CASE a.t = "nan" \/ b.t = "nan" -> NaN
      [] a.t = "fin" /\ b.t = "fin" -> Fin(a.n * b.d + b.n * a.d, a.d * b.d)
      [] a.t = "fin" -> b
      [] b.t = "fin" -> a
      [] a.t = b.t -> a
      [] OTHER -> NaN

Sub(a, b) == Add(a, Neg(b))

\* a >= n/d, false for nan
GeRational(a, n, d) ==
    CASE a.t = "fin"  -> a.n * d >= n * a.d
      [] a.t = "pinf" -> TRUE
      [] OTHER -> FALSE

RECURSIVE SumSeq(_)
\* np.add.reduce over a short sequence of floats
SumSeq(q) == IF q = <<>> THEN Fin(0, 1) ELSE Add(Head(q), SumSeq(Tail(q)))

\* q[::-1]
Reverse(q) == [i \in 1..Len(q) |-> q[Len(q) + 1 - i]]

\* np.diff(q): q[1:] - q[:-1]
Diff(q) == [i \in 1..(Len(q) - 1) |-> Sub(q[i + 1], q[i])]

\* q[-k:]
LastK(q, k) == IF Len(q) <= k THEN q ELSE SubSeq(q, Len(q) - k + 1, Len(q))

-----------------------------------------------------------------------------
(* space_net.py: EarlyStoppingCallback.__call__                            *)
(* Scores are in units of 1e-4, so the threshold -1e-4 is -1.              *)

\* calls made to one callback
MaxCalls == 33

\* most changes of score between consecutive calls
MaxMoves == 1

\* the primary scores test_score can return for the iterate of a call:
\* 0, 4e-4, 9e-4, -inf (constant weights) and nan (constant prediction)
CallScores == {Fin(0, 1), Fin(4, 1), Fin(9, 1), NegInf, NaN}

\* counter > 20 and (counter % 10) == 2
IsCheckpointWrong(c) == c >= 20 /\ (c % 10) = 0

IsCheckpoint(c) == c > 20 /\ (c % 10) = 2

\* test_scores[-5:] without the [::-1]
ScoreWindowUnreversed(scores) == LastK(scores, 5)

\* self.test_scores[-5:][::-1]
ScoreWindow(scores) == Reverse(LastK(scores, 5))

\* np.mean(np.diff(window)) >= -1e-4
MeanDiffAtLeast(window) ==
    LET total == SumSeq(Diff(window))
    IN  GeRational(total, 0 - Len(Diff(window)), 1)

\* the value __call__ returns once the score is appended
CallResult(c, scores) ==
    IF ~IsCheckpoint(c) THEN "None"
    ELSE IF Len(scores) > 4 /\ MeanDiffAtLeast(ScoreWindow(scores))
         THEN "True"
         ELSE "False"

\* the iterate the solver hands over: some weights that have the score
\* (constant weights for -inf), the intercept last for classification
IterateOf(score, is_classif) ==
    LET w == CASE score.t = "ninf" -> <<3, 3>>
               [] score.t = "nan"  -> <<1, 2>>
               [] OTHER            -> <<score.n, 1 + score.n>>
    IN  IF is_classif THEN Append(w, 7) ELSE w

\* the entries of the array that the local name w of test_score views:
\* w = w[:-1] for classification
ScoredEntries(w, is_classif) ==
    IF is_classif THEN 1..(Len(w) - 1) ELSE 1..Len(w)

\* a test_score that rescales what it scores in place, as _debias does
\* (w *= scaling)
ArrayAfterScaledScore(w, is_classif) ==
    [i \in DOMAIN w |->
        IF i \in ScoredEntries(w, is_classif) THEN 2 * w[i] ELSE w[i]]

\* the content of the array after test_score(w): w[:-1] is a view bound to
\* the local name, and ptp, np.dot, spearmanr and corrcoef only read it
ArrayAfterTestScore(w, is_classif) ==
    [i \in DOMAIN w |-> w[i]]

\* the score list emptied at every tenth call
KeptScoresResetEveryTenth(c, scores) == IF c % 10 = 0 THEN <<>> ELSE scores

\* if self.counter == 0: self.test_scores = list(), after the increment
KeptScores(c, scores) == IF c = 0 THEN <<>> ELSE scores

InitES ==
    /\ es_counter = 0
    /\ es_test_scores = <<>>
    /\ es_ret = "init"
    /\ es_moves = 0
    /\ es_classif \in BOOLEAN
    /\ es_arg = <<>>
    /\ es_w = <<>>
    /\ es_calls = <<>>

IdleES ==
    /\ es_counter = 0 /\ es_test_scores = <<>> /\ es_ret = "idle" /\ es_moves = 0
    /\ es_classif = FALSE /\ es_arg = <<>> /\ es_w = <<>> /\ es_calls = <<>>

\* one call of the callback; score is test_score(w)[0] for the iterate w
CallEarlyStopper(score) ==
    /\ es_counter < MaxCalls
    /\ LET moved == es_test_scores # <<>>
                     /\ es_test_scores[Len(es_test_scores)] # score
           c     == es_counter + 1
           kept  == KeptScores(c, es_test_scores)
           now   == Append(kept, score)
           w     == IterateOf(score, es_classif)
       IN  /\ moved => es_moves < MaxMoves
           /\ es_moves' = IF moved THEN es_moves + 1 ELSE es_moves
           /\ es_counter' = c
           /\ es_test_scores' = now
           /\ es_ret' = CallResult(c, now)
           /\ es_arg' = w
           /\ es_w' = ArrayAfterTestScore(w, es_classif)
    /\ es_calls' = Append(es_calls, score)
    /\ UNCHANGED es_classif

-----------------------------------------------------------------------------
(* space_net.py: masks, _crop_mask and _univariate_feature_screening       *)
(* A mask is [shape, on, off]: the array shape, the set of active voxels   *)
(* (0-based index triples) and, for bookkeeping, the position of the       *)
(* array's origin in the array it was cropped from.                        *)

RECURSIVE SumRange(_, _, _)
\* f[lo] + ... + f[hi], by halves
SumRange(f, lo, hi) ==
    IF lo > hi THEN 0
    ELSE IF lo = hi THEN f[lo]
    ELSE SumRange(f, lo, (lo + hi) \div 2) + SumRange(f, ((lo + hi) \div 2) + 1, hi)

\* f[1] + ... + f[n]
SumTo(f, n) == SumRange(f, 1, n)

\* the position of voxel v in C (row-major) order
Key(v, shape) == (v[1] * shape[2] + v[2]) * shape[3] + v[3]

\* the feature (1-based column of X) a voxel of the mask stands for: the rank
\* of the voxel among the active voxels in C order
FeatureOf(mask, v) ==
    Cardinality({u \in mask.on : Key(u, mask.shape) < Key(v, mask.shape)}) + 1

InArray(v, shape) == \A d \in 1..3 : v[d] >= 0 /\ v[d] < shape[d]

\* the six face neighbours: scipy's default structuring element
Nbrs(v) == {[v EXCEPT ![d] = v[d] + k] : d \in 1..3, k \in {-1, 1}}

\* ndimage.binary_erosion(S): a voxel stays when it and its six neighbours are
\* set; voxels outside the array count as unset (border_value=0)
binary_erosion(S) == {v \in S : Nbrs(v) \subseteq S}

\* ndimage.binary_dilation(S), clipped to the array
binary_dilation(S, shape) ==
    S \cup {u \in UNION {Nbrs(v) : v \in S} : InArray(u, shape)}

\* the set S as an increasing sequence
SortedSeq(S) ==
    [i \in 1..Cardinality(S) |->
        CHOOSE x \in S : Cardinality({z \in S : z < x}) = i - 1]

\* _univariate_feature_screening closing the support (dilation, then erosion)
ScreeningByClosing(mask, selected) ==
    LET cleaned == binary_erosion(binary_dilation(selected, mask.shape))
                       \cap mask.on
    IN  [mask    |-> [mask EXCEPT !.on = cleaned],
         support |-> {FeatureOf(mask, v) : v \in cleaned}]

\* _univariate_feature_screening with the retained mask computed from the
\* selector's support but the columns of X taken from the selector's support
\* itself (before the morphological clean-up)
ScreeningUncleanedColumns(mask, selected) ==
    LET cleaned == binary_dilation(binary_erosion(selected), mask.shape) \cap mask.on
    IN  [mask    |-> [mask EXCEPT !.on = cleaned],
         support |-> {FeatureOf(mask, v) : v \in selected}]

\* _univariate_feature_screening: `selected` is the support SelectPercentile
\* found (as voxels of the mask); returns mask_ and support = mask_[mask]
_univariate_feature_screening(mask, selected) ==
    LET cleaned == binary_dilation(binary_erosion(selected), mask.shape) \cap mask.on
    IN  [mask    |-> [mask EXCEPT !.on = cleaned],
         support |-> {FeatureOf(mask, v) : v \in cleaned}]

\* min or max of one coordinate over the active voxels
CoordMin(S, d) == 0 - MaxOfSet({0 - v[d] : v \in S})

CoordMax(S, d) == MaxOfSet({v[d] : v \in S})

\* _crop_mask, for a mask with an active voxel: one voxel of margin is kept
\* below, none above
_crop_mask(mask) ==
    LET lo == [d \in 1..3 |->
                  IF CoordMin(mask.on, d) - 1 > 0 THEN CoordMin(mask.on, d) - 1 ELSE 0]
        hi == [d \in 1..3 |-> CoordMax(mask.on, d)]
    IN  [shape |-> [d \in 1..3 |-> hi[d] - lo[d] + 1],
         on    |-> {[d \in 1..3 |-> v[d] - lo[d]] : v \in mask.on},
         off   |-> [d \in 1..3 |-> mask.off[d] + lo[d]]]

\* a 3-D cross: what survives an erosion followed by a dilation at least
Cross(c) == {c} \cup Nbrs(c)

Box(shape) == {v \in (0..(shape[1] - 1)) \X (0..(shape[2] - 1)) \X (0..(shape[3] - 1)) : TRUE}

-----------------------------------------------------------------------------
(* space_net.py: EarlyStoppingCallback.test_score and _debias              *)
(* A correlation rho is kept as the exact rational rho * |rho|, a strictly *)
(* increasing function of rho: order, equality and finiteness of scores    *)
(* are those of the correlations themselves.                               *)

\* comparisons of floats; every comparison with nan is false
FloatGt(a, b) ==
    CASE a.t = "nan" \/ b.t = "nan" -> FALSE
      [] a.t = "fin" /\ b.t = "fin" -> FinLess(b, a)
      [] a.t = "pinf" -> b.t # "pinf"
      [] a.t = "fin"  -> b.t = "ninf"
      [] OTHER -> FALSE

FloatEq(a, b) ==
    CASE a.t = "nan" \/ b.t = "nan" -> FALSE
      [] a.t = "fin" /\ b.t = "fin" -> FinEq(a, b)
      [] OTHER -> a.t = b.t

\* np.dot(X_test, w): one prediction per test sample; X_test holds the
\* columns `cols` of the rows `test` of X
Predict(X, test, cols, w) ==
    [s \in 1..Len(test) |->
        SumTo([i \in 1..Len(cols) |-> X[test[s]][cols[i]] * w[i]], Len(cols))]

\* twice the average rank of each entry (scipy's rankdata)
Ranks2(p) ==
    [i \in 1..Len(p) |->
        Cardinality({j \in 1..Len(p) : p[j] < p[i]})
        + Cardinality({j \in 1..Len(p) : p[j] <= p[i]}) + 1]

\* the correlation of two integer sequences: 0/0 = nan when one is constant
Correlation(p, q) ==
    LET n  == Len(p)
        sp == SumTo(p, n)
        sq == SumTo(q, n)
        c  == n * SumTo([i \in 1..n |-> p[i] * q[i]], n) - sp * sq
        vp == n * SumTo([i \in 1..n |-> p[i] * p[i]], n) - sp * sp
        vq == n * SumTo([i \in 1..n |-> q[i] * q[i]], n) - sq * sq
    IN  IF vp = 0 \/ vq = 0 THEN NaN ELSE Fin(Sign(c) * c * c, vp * vq)

\* w.ptp() == 0
ZeroRange(w) == \A i, j \in 1..Len(w) : w[i] = w[j]

\* w[:-1]
DropLast(w) == SubSeq(w, 1, Len(w) - 1)

\* test_score with the constant-map test applied to the whole vector, the
\* intercept included
TestScoreOnFullVector(w, X, test, cols, y, is_classif) ==
    LET wc       == IF is_classif THEN DropLast(w) ELSE w
        y_pred   == Predict(X, test, cols, wc)
        y_test   == [s \in 1..Len(test) |-> y[test[s]]]
        spearman == Correlation(Ranks2(y_pred), Ranks2(y_test))
        pearson  == Correlation(y_pred, y_test)
    IN  IF ZeroRange(w) THEN <<NegInf, NegInf>>
        ELSE IF is_classif THEN <<spearman, pearson>>
        ELSE <<pearson, spearman>>

\* test_score returning the rank correlation first whatever the task
TestScoreSpearmanFirst(w, X, test, cols, y, is_classif) ==
    LET wc       == IF is_classif THEN DropLast(w) ELSE w
        y_pred   == Predict(X, test, cols, wc)
        y_test   == [s \in 1..Len(test) |-> y[test[s]]]
        spearman == Correlation(Ranks2(y_pred), Ranks2(y_test))
        pearson  == Correlation(y_pred, y_test)
    IN  IF ZeroRange(wc) THEN <<NegInf, NegInf>>
        ELSE <<spearman, pearson>>

\* EarlyStoppingCallback.test_score(w): <<primary, secondary>>
test_score(w, X, test, cols, y, is_classif) ==
    LET wc       == IF is_classif THEN DropLast(w) ELSE w
        y_pred   == Predict(X, test, cols, wc)
        y_test   == [s \in 1..Len(test) |-> y[test[s]]]
        spearman == Correlation(Ranks2(y_pred), Ranks2(y_test))
        pearson  == Correlation(y_pred, y_test)
    IN  IF ZeroRange(wc) THEN <<NegInf, NegInf>>
        ELSE IF is_classif THEN <<spearman, pearson>>
        ELSE <<pearson, spearman>>

\* EarlyStoppingCallback._debias(w) for w as long as X_test has columns:
\* the weights as [n, d], the vector n / d
_debias(w, X, test, cols, y) ==
    LET y_pred  == Predict(X, test, cols, w)
        m       == Len(test)
        scaling == SumTo([s \in 1..m |-> y_pred[s] * y_pred[s]], m)
        dotp    == SumTo([s \in 1..m |-> y_pred[s] * y[test[s]]], m)
    IN  IF scaling > 0
        THEN [n |-> [i \in 1..Len(w) |-> dotp * w[i]], d |-> scaling]
        ELSE [n |-> w, d |-> 1]

-----------------------------------------------------------------------------
(* space_net.py: path_scores                                               *)

\* ---- the solver (an argument of path_scores): any weights of the right
\* length; the kinds below give constant and non-constant maps, maps with
\* equal rank correlation but different linear correlation, and a map that
\* changes from each voxel to the next
SolverKinds == {"zero", "ones", "edge", "edge2", "first", "ramp"}

\* the intercept a classification solver appends to its weights
SolverIntercepts == {5}

SolverWeights(kind, n) ==
    [i \in 1..n |->
        CASE kind = "zero"  -> 0
          [] kind = "ones"  -> 1
          [] kind = "edge"  -> IF i = 1 THEN -1 ELSE IF i = n THEN 1 ELSE 0
          [] kind = "edge2" -> IF i = 1 THEN -1 ELSE IF i = n THEN 2 ELSE 0
          [] kind = "first" -> IF i = 1 THEN 1 ELSE 0
          [] OTHER          -> ((i - 1) % 4) + 1]

\* w as the solver returns it: one weight per column of X, and the intercept
\* last for classification
SolverOutput(kind, b, n, is_classif) ==
    IF is_classif THEN Append(SolverWeights(kind, n), b) ELSE SolverWeights(kind, n)

\* ---- sorted(alphas): Python's sort looks for an initial run first, a list
\* in which no entry is less than its predecessor is left as it is (nan
\* compares false with everything)
IsRun(q) == \A i \in 1..(Len(q) - 1) : ~FloatGt(q[i], q[i + 1])

InsertSorted(q, x) ==
    LET k == Cardinality({i \in 1..Len(q) : ~FloatGt(q[i], x)})
    IN  SubSeq(q, 1, k) \o <<x>> \o SubSeq(q, k + 1, Len(q))

RECURSIVE sorted(_)
sorted(q) ==
    IF IsRun(q) THEN q
    ELSE InsertSorted(sorted(SubSeq(q, 1, Len(q) - 1)), q[Len(q)])

\* ---- center_data(X_train, y_train): the training rows minus their column
\* means, times the number of training samples (to stay in the integers)
CentredX(X, train, cols) ==
    LET m == Len(train)
    IN  [s \in 1..m |-> [j \in 1..Len(cols) |->
            m * X[train[s]][cols[j]]
            - SumTo([t \in 1..m |-> X[train[t]][cols[j]]], m)]]

CentredY(y, train) ==
    LET m == Len(train)
    IN  [s \in 1..m |-> m * y[train[s]] - SumTo([t \in 1..m |-> y[train[t]]], m)]

\* ---- the test of the scan loop, with ties on both scores replacing the best
ImprovesOrTies(score, secundary_score, best_score, best_secundary_score) ==
    /\ IsFin(score)
    /\ \/ FloatGt(score, best_score)
       \/ /\ FloatEq(score, best_score)
          /\ ~FloatGt(best_secundary_score, secundary_score)

\* ---- the test of the scan loop: does this alpha replace the best so far
Improves(score, secundary_score, best_score, best_secundary_score) ==
    /\ IsFin(score)
    /\ \/ FloatGt(score, best_score)
       \/ /\ FloatEq(score, best_score)
          /\ FloatGt(secundary_score, best_secundary_score)

\* ---- un-screening that packs the solver's coefficients at the front
UnscreenPacked(w, cols, n_features, is_classif) ==
    LET coef == [j \in 1..n_features |-> IF j <= Len(cols) THEN w[j] ELSE 0]
    IN  IF is_classif THEN Append(coef, w[Len(w)]) ELSE coef

\* ---- un-screening: w_ = zeros(len(support)); w_[support] = best_w, the
\* intercept kept last for classification
Unscreen(w, cols, n_features, is_classif) ==
    LET coef == [j \in 1..n_features |->
                    IF \E i \in 1..Len(cols) : cols[i] = j
                    THEN w[CHOOSE i \in 1..Len(cols) : cols[i] = j]
                    ELSE 0]
    IN  IF is_classif THEN Append(coef, w[Len(w)]) ELSE coef

\* ---- the calls tried ----

\* alphas=None
NoAlphas == <<>>

NoReturn == <<>>

\* the warm-start state the caller hands in; the solver's n-th call returns
\* [src |-> "solver", call |-> n]
CallerInit == [src |-> "caller", call |-> 0]

\* a mask of two voxels (no screening) and one of 124 voxels (screening applies)
SmallMask == [shape |-> <<4, 1, 1>>, on |-> {<<2, 0, 0>>, <<3, 0, 0>>},
              off |-> <<0, 0, 0>>]

BigMask == [shape |-> <<5, 5, 5>>, on |-> Box(<<5, 5, 5>>) \ {<<0, 0, 0>>},
            off |-> <<0, 0, 0>>]

\* five samples: the held-out rows (3, 4, 5) are different, or all the same
SmallX(variant) ==
    IF variant = "same_rows"
    THEN <<<<1, 0>>, <<0, 1>>, <<1, 2>>, <<1, 2>>, <<1, 2>>>>
    ELSE <<<<1, 0>>, <<0, 1>>, <<1, 0>>, <<0, 1>>, <<1, 1>>>>

BigX == [s \in 1..5 |-> [j \in 1..Cardinality(BigMask.on) |-> ((s + j) % 3) - 1]]

\* the response: labels -1/1 for classification; the held-out part constant
\* in one variant, the first two samples (a training fold) in another
PathY(is_classif, variant) ==
    IF variant = "constant_y_test"
    THEN IF is_classif THEN <<1, -1, 1, 1, 1>> ELSE <<0, 2, 1, 1, 1>>
    ELSE IF variant = "constant_y_train"
    THEN IF is_classif THEN <<1, 1, -1, 1, -1>> ELSE <<1, 1, 0, 1, 3>>
    ELSE IF is_classif THEN <<1, -1, -1, 1, 1>> ELSE <<0, 2, 0, 1, 3>>

Variants == {"plain", "constant_y_test", "constant_y_train", "same_rows"}

\* a fold with held-out samples, and the single fold of cv=1 (nothing held out)
Folds == {[train |-> <<1, 2>>, test |-> <<3, 4, 5>>],
          [train |-> <<1, 2, 3, 4, 5>>, test |-> <<>>]}

\* Xmean (the same for every feature; 0 is also what None stands for) and ymean
Means == {<<0, 0>>, <<1, 2>>}

\* alphas, n_alphas and the means: a grid to compute, or a list given
\* (unsorted, or with a repeated value)
AlphaChoices ==
    {<<NoAlphas, n, <<0, 0>>>> : n \in 1..MaxAlphas}
    \cup {<<<<Fin(1, 1), Fin(2, 1)>>, 1, mu>> : mu \in Means}
    \cup {<<<<Fin(1, 2), Fin(1, 2)>>, 1, <<1, 2>>>>}

PathArgs(X, y, mask, al, fold, c, db, pct) ==
    [X |-> X, y |-> y, mask |-> mask, alphas |-> al[1], n_alphas |-> al[2],
     l1_ratio |-> <<1, 2>>, root |-> 2, train |-> fold.train, test |-> fold.test,
     is_classif |-> c, debias |-> db, Xmean |-> al[3][1], ymean |-> al[3][2],
     screening_percentile |-> pct, init |-> CallerInit, key |-> "fold"]

SmallCalls ==
    {PathArgs(SmallX(v), PathY(c, v), SmallMask, al, fold, c, db, 20) :
        v \in Variants, al \in AlphaChoices, fold \in Folds, c \in BOOLEAN,
        db \in BOOLEAN}

BigCalls ==
    {PathArgs(BigX, PathY(c, "plain"), BigMask, <<<<Fin(1, 2)>>, 1, <<1, 2>>>>,
              fold, c, db, pct) :
        fold \in Folds, c \in BOOLEAN, db \in BOOLEAN, pct \in {0, 20, 99, 100}}

\* what SelectPercentile may select (as voxels of BigMask): blobs that survive
\* the erosion, a blob with an isolated voxel, an isolated voxel alone, all
\* but the centre and a corner
SupportFamily ==
    {{}, Cross(<<2, 2, 2>>), Cross(<<3, 3, 3>>), Cross(<<1, 1, 1>>),
     Cross(<<2, 2, 2>>) \cup Cross(<<3, 2, 2>>),
     Cross(<<2, 2, 2>>) \cup {<<4, 4, 4>>}, {<<4, 4, 4>>},
     BigMask.on \ {<<2, 2, 2>>, <<4, 4, 4>>}}

\* selector.get_support(): at most percentile percent of the features, none
\* for percentile 0
SelectorSupports(mask, percentile) ==
    {S \in SupportFamily :
        /\ S \subseteq mask.on
        /\ Cardinality(S) * 100 <= Cardinality(mask.on) * percentile
        /\ (S = {}) <=> (percentile = 0)}

InitPath ==
    /\ p_args \in SmallCalls \cup BigCalls
    /\ p_pc = "start"
    /\ p_mask = p_args.mask
    /\ p_cols = <<>>
    /\ p_alphas = <<>>
    /\ p_init = p_args.init
    /\ p_best = [init |-> p_args.init, alpha |-> NaN, score |-> NegInf,
                 secundary |-> NegInf, at |-> 0]
    /\ p_test_scores = <<>>
    /\ p_stopper = FALSE
    /\ p_calls = <<>>
    /\ p_scan = <<>>
    /\ p_ret = NoReturn
    /\ p_err = "none"
    /\ p_selected = {}

IdlePath ==
    /\ p_args = <<>>
    /\ p_pc = "idle"
    /\ p_mask = <<>>
    /\ p_cols = <<>>
    /\ p_alphas = <<>>
    /\ p_init = <<>>
    /\ p_best = <<>>
    /\ p_test_scores = <<>>
    /\ p_stopper = FALSE
    /\ p_calls = <<>>
    /\ p_scan = <<>>
    /\ p_ret = NoReturn
    /\ p_err = "none"
    /\ p_selected = {}

\* ---- the steps of path_scores ----

\* do_screening = (n_features > 100) and screening_percentile < 100.
DoScreening(a) == Len(a.X[1]) > 100 /\ a.screening_percentile < 100

\* EarlyStoppingCallback.__init__: a new instance
NewEarlyStopper == [counter |-> 0, test_scores |-> <<>>]

\* the entry of the call log: what the solver was handed; stopper is the
\* state of the callback instance at that moment, "None" without a callback
SolverCall(alpha, init, callback) ==
    [alpha |-> alpha, init |-> init, callback |-> callback,
     stopper |-> IF callback THEN NewEarlyStopper ELSE "None",
     ncols |-> Len(p_cols), nvox |-> Cardinality(p_mask.on)]

\* the re-fit started from the state the last scanned alpha returned
RefitFromLastInit(best, init) == init

\* the init of the re-fit: init=best_init
RefitInit(best, init) == best.init

\* everything before the scan: screening, cropping, centring, the alpha grid
PathSetup ==
    /\ p_pc = "start"
    /\ LET a == p_args
           n_features == Len(a.X[1])
       IN  \E selected \in IF DoScreening(a)
                           THEN SelectorSupports(a.mask, a.screening_percentile)
                           ELSE {a.mask.on} :
             LET scr  == IF DoScreening(a)
                         THEN _univariate_feature_screening(a.mask, selected)
                         ELSE [mask |-> a.mask, support |-> 1..n_features]
                 cols == SortedSeq(scr.support)
                 m    == Len(a.train)
                 grid == IF a.alphas = NoAlphas
                         THEN _space_net_alpha_grid(
                                  CentredX(a.X, a.train, cols), m,
                                  CentredY(a.y, a.train), m, 1..Len(cols),
                                  a.root, a.n_alphas, a.l1_ratio, a.is_classif)
                         ELSE a.alphas
                 alphas == Reverse(sorted(grid))
             IN  /\ p_selected' = selected
                 /\ IF scr.mask.on = {}
                    THEN \* _crop_mask: the min of an empty index array
                         /\ p_pc' = "error"
                         /\ p_err' = "ValueError"
                         /\ p_mask' = scr.mask
                         /\ p_cols' = cols
                         /\ UNCHANGED <<p_alphas, p_best>>
                    ELSE /\ p_pc' = IF Len(a.test) > 0 THEN "scan" ELSE "refit"
                         /\ p_mask' = _crop_mask(scr.mask)
                         /\ p_cols' = cols
                         /\ p_alphas' = alphas
                         /\ p_best' = [p_best EXCEPT !.alpha = alphas[1]]
                         /\ UNCHANGED p_err
    /\ UNCHANGED <<p_args, p_init, p_test_scores, p_stopper, p_calls, p_scan, p_ret>>

\* one turn of the loop over the alphas
ScanAlpha ==
    /\ p_pc = "scan"
    /\ \E kind \in SolverKinds, b \in SolverIntercepts :
         LET a        == p_args
             at       == Len(p_scan) + 1
             alpha    == p_alphas[at]
             w        == SolverOutput(kind, b, Len(p_cols), a.is_classif)
             new_init == [src |-> "solver", call |-> Len(p_calls) + 1]
         IN  \E sc \in {test_score(w, a.X, a.test, p_cols, a.y, a.is_classif)} :
             /\ p_calls' = Append(p_calls, SolverCall(alpha, p_init, TRUE))
             /\ p_init' = new_init
             /\ p_test_scores' = Append(p_test_scores, sc[1])
             /\ p_scan' = Append(p_scan, [score |-> sc[1], secundary |-> sc[2],
                                          w |-> w, init |-> new_init])
             /\ p_best' = IF Improves(sc[1], sc[2], p_best.score, p_best.secundary)
                          THEN [init |-> new_init, alpha |-> alpha, score |-> sc[1],
                                secundary |-> sc[2], at |-> at]
                          ELSE p_best
             /\ p_pc' = IF at = Len(p_alphas) THEN "refit" ELSE "scan"
    /\ p_stopper' = TRUE
    /\ UNCHANGED <<p_args, p_mask, p_cols, p_alphas, p_ret, p_err, p_selected>>

\* the final re-solve, debiasing, un-screening, the intercept, the return
Refit ==
    /\ p_pc = "refit"
    /\ \E kind \in SolverKinds, b \in SolverIntercepts :
         LET a          == p_args
             n_features == Len(a.X[1])
             w          == SolverOutput(kind, b, Len(p_cols), a.is_classif)
         IN  /\ p_calls' = Append(p_calls, SolverCall(p_best.alpha,
                                        RefitInit(p_best, p_init), FALSE))
             /\ p_init' = [src |-> "solver", call |-> Len(p_calls) + 1]
             /\ IF a.debias /\ ~p_stopper
                THEN \* early_stopper was never assigned
                     /\ p_pc' = "error"
                     /\ p_err' = "NameError"
                     /\ UNCHANGED <<p_test_scores, p_ret>>
                ELSE IF a.debias /\ Len(w) # Len(p_cols)
                THEN \* np.dot(X_test, w): shapes not aligned
                     /\ p_pc' = "error"
                     /\ p_err' = "ValueError"
                     /\ UNCHANGED <<p_test_scores, p_ret>>
                ELSE LET best_w == IF a.debias
                                   THEN _debias(w, a.X, a.test, p_cols, a.y)
                                   ELSE [n |-> w, d |-> 1]
                         scores == IF Len(a.test) = 0
                                   THEN Append(p_test_scores, NaN)
                                   ELSE p_test_scores
                         w_     == IF DoScreening(a)
                                   THEN Unscreen(best_w.n, p_cols, n_features, a.is_classif)
                                   ELSE best_w.n
                         full   == IF Len(w_) = n_features
                                   THEN Append(w_, a.ymean * best_w.d
                                                   - a.Xmean * SumTo(w_, n_features))
                                   ELSE w_
                     IN  /\ p_pc' = "done"
                         /\ p_test_scores' = scores
                         /\ p_ret' = [test_scores |-> scores,
                                      best_w |-> [n |-> full, d |-> best_w.d],
                                      best_alpha |-> p_best.alpha, key |-> a.key,
                                      solved |-> w]
                         /\ UNCHANGED p_err
    /\ UNCHANGED <<p_args, p_mask, p_cols, p_alphas, p_best, p_stopper, p_scan,
                   p_selected>>

-----------------------------------------------------------------------------
(* space_net.py: BaseSpaceNet.__init__, check_params and fit               *)

\* the Python value None (for loss, alpha)
None == "None"

SUPPORTED_PENALTIES == {"smooth-lasso", "tv-l1"}

SUPPORTED_LOSSES == {"mse", "logistic"}

\* str.lower() on the names tried
lower(name) ==
    CASE name = "TV-L1" -> "tv-l1"
      [] name = "MSE" -> "mse"
      [] name = "Logistic" -> "logistic"
      [] OTHER -> name

\* a <= x <= b for x = <<numerator, denominator>>
InInterval(x, a, b) == a * x[2] <= x[1] /\ x[1] <= b * x[2]

\* check_params without its last test, of the logistic loss on a regression
CheckParamsWithoutTaskTest(q) ==
    IF \/ ~InInterval(q.l1_ratio, 0, 1)
       \/ ~InInterval(<<q.screening_percentile, 1>>, 0, 100)
       \/ lower(q.penalty) \notin SUPPORTED_PENALTIES
       \/ ~(q.loss = None \/ lower(q.loss) \in SUPPORTED_LOSSES)
    THEN "ValueError" ELSE "none"

\* check_params: the exception it raises, "none" when the parameters pass
check_params(q) ==
    IF \/ ~InInterval(q.l1_ratio, 0, 1)
       \/ ~InInterval(<<q.screening_percentile, 1>>, 0, 100)
       \/ lower(q.penalty) \notin SUPPORTED_PENALTIES
       \/ ~(q.loss = None \/ lower(q.loss) \in SUPPORTED_LOSSES)
       \/ (q.loss # None /\ ~q.is_classif /\ lower(q.loss) = "logistic")
    THEN "ValueError" ELSE "none"

\* ---- the estimators tried ----
Penalties == {"smooth-lasso", "tv-l1", "TV-L1", "lasso"}

Losses == {None, "mse", "logistic", "MSE", "Logistic", "hinge"}

L1Ratios == {<<-1, 2>>, <<0, 1>>, <<1, 2>>, <<1, 1>>, <<3, 2>>}

Percentiles == {-1, 0, 20, 80, 100, 101}

\* alpha = None
NoAlpha == <<>>

\* the defaults of SpaceNetRegressor, on four samples and a mask of two voxels
\* of 27 mm^3 each; constant_feature: a column of X has the same value in
\* every sample
DefaultParams ==
    [penalty |-> "smooth-lasso", loss |-> None, is_classif |-> FALSE,
     l1_ratio |-> <<1, 2>>, screening_percentile |-> 20, alpha |-> NoAlpha,
     alphas |-> NoAlphas, n_alphas |-> 3, cv |-> 2, n_classes |-> 2,
     n_samples |-> 4, n_features |-> 2, voxel_volume |-> 27,
     standardize |-> FALSE, constant_feature |-> FALSE]

\* estimators that differ in the parameters check_params looks at
CheckedParams ==
    {[DefaultParams EXCEPT !.penalty = pen, !.loss = lo, !.is_classif = c,
                           !.l1_ratio = r, !.screening_percentile = pct] :
        pen \in Penalties, lo \in Losses, c \in BOOLEAN, r \in L1Ratios,
        pct \in Percentiles}

\* alpha, alphas and n_alphas: one alpha, a list of one or two, or a grid of
\* n_alphas values to compute
FitAlphaChoices ==
    {<<<<1>>, NoAlphas, 3>>, <<<<1>>, <<1, 2>>, 3>>,
     <<NoAlpha, <<1>>, 3>>, <<NoAlpha, <<1, 2>>, 3>>}
    \cup {<<NoAlpha, NoAlphas, n>> : n \in 1..MaxAlphas}

\* estimators that differ in the alphas, the folds and the classes
ShapeParams ==
    {[DefaultParams EXCEPT !.alpha = al[1], !.alphas = al[2],
                           !.n_alphas = al[3], !.cv = sh[1],
                           !.is_classif = sh[2], !.n_classes = sh[3]] :
        al \in FitAlphaChoices,
        sh \in {<<2, FALSE, 2>>, <<3, FALSE, 2>>, <<2, TRUE, 2>>,
                <<2, TRUE, 3>>}}

MNI152_BRAIN_VOLUME == 1827243

\* estimators that differ in the screening percentile and in the data mask
ScreeningParams ==
    {[DefaultParams EXCEPT !.screening_percentile = pct, !.n_features = m[1],
                           !.voxel_volume = m[2]] :
        pct \in {0, 20, 80, 100},
        m \in {<<2, 27>>, <<124, 1>>, <<124, 27>>, <<124, 20000>>}}

\* estimators that differ in standardize, on data with or without a constant
\* feature
StandardizeParams ==
    {[DefaultParams EXCEPT !.standardize = st, !.constant_feature = cf] :
        st \in BOOLEAN, cf \in BOOLEAN}

\* whether X holds a nan when the tasks get it: _standardize_X divides the
\* centred X by X.std(axis=0), 0 / 0 for a constant feature
XHasNaN(q) == q.standardize /\ q.constant_feature

\* _get_mask_volume: the volume of a voxel times the number of mask voxels
_get_mask_volume(q) == q.voxel_volume * q.n_features

\* screening_percentile * (mask_volume / MNI152_BRAIN_VOLUME), as a fraction
screening_percentile_(q) ==
    <<q.screening_percentile * _get_mask_volume(q), MNI152_BRAIN_VOLUME>>

\* do_screening = (n_features > 100) and screening_percentile < 100.
do_screening(n_features, pct) == n_features > 100 /\ pct[1] < 100 * pct[2]

\* the alphas fit works with: [alpha], else alphas, else None
FitAlphas(q) == IF q.alpha # NoAlpha THEN q.alpha ELSE q.alphas

\* check_cv(cv): fold k tests the samples congruent to k
CvFolds(q) ==
    [k \in 1..q.cv |->
        [train |-> SortedSeq({i \in 1..q.n_samples : i % q.cv # k % q.cv}),
         test  |-> SortedSeq({i \in 1..q.n_samples : i % q.cv = k % q.cv})]]

\* the one fold without a test set
SingleFold(q) == <<[train |-> [i \in 1..q.n_samples |-> i], test |-> <<>>]>>

\* the folds for every grid of exactly one alpha, n_alphas = 1 included
CvOnlyForSeveralAlphas(q) ==
    IF (FitAlphas(q) = NoAlphas /\ q.n_alphas > 1) \/ Len(FitAlphas(q)) > 1
    THEN CvFolds(q) ELSE SingleFold(q)

\* self.cv_
cv_(q) ==
    IF FitAlphas(q) = NoAlphas \/ Len(FitAlphas(q)) > 1
    THEN CvFolds(q) ELSE SingleFold(q)

\* self.loss_
loss_(q) ==
    IF q.loss # None THEN lower(q.loss)
    ELSE IF q.is_classif THEN "logistic" ELSE "mse"

\* n_problems
n_problems(q) == IF q.is_classif /\ q.n_classes > 2 THEN q.n_classes ELSE 1

\* the backend solver fit chooses: the penalty's adapter, for the squared or
\* the logistic loss
solver(q) ==
    [penalty |-> IF lower(q.penalty) = "smooth-lasso" THEN "smooth-lasso"
                 ELSE "tv-l1",
     loss    |-> IF ~q.is_classif \/ q.loss = "mse" THEN "mse" ELSE "logistic"]

\* the arguments of the path_scores call of class c on fold k
FitTask(q, folds, c, k) ==
    [key |-> c, train |-> folds[k].train, test |-> folds[k].test,
     solver |-> solver(q),
     is_classif |-> (q.loss = "logistic"),
     alphas |-> FitAlphas(q), n_alphas |-> q.n_alphas,
     screening_percentile |-> screening_percentile_(q),
     n_features |-> q.n_features, X_nan |-> XHasNaN(q),
     status |-> "pending", screened |-> FALSE, best_w |-> <<>>, nan |-> FALSE]

\* the best_w a task may return: n_features coefficients and the intercept
TaskWeights(n_features) ==
    {SolverWeights(kind, n_features + 1) : kind \in {"ones", "edge2"}}

\* whether the best_w a task returns is nan: the solver's arithmetic on an X
\* with a nan gives nan weights, unless the solver stops before any step
TaskNaN(task) == IF task.X_nan THEN BOOLEAN ELSE {FALSE}

\* the attributes fit sets before the tasks run, and after them
AttrsBeforeTasks ==
    {"memory_", "masker_", "mask_img_", "mask_", "loss_", "Xmean_", "Xstd_",
     "ymean_", "cv_", "cv_scores_", "screening_percentile_"}

AttrsAfterTasks ==
    {"alphas_", "i_alpha_", "alpha_", "w_", "coef_", "intercept_",
     "coef_img_"}

InitFit ==
    /\ f_params \in CheckedParams \cup ShapeParams \cup ScreeningParams
                     \cup StandardizeParams
    /\ f_pc = "new"
    /\ f_changed = FALSE
    /\ f_err = "none"
    /\ f_masker = 0
    /\ f_attrs = {}
    /\ f_cv = <<>>
    /\ f_tasks = <<>>
    /\ f_w = <<>>

IdleFit ==
    /\ f_params = <<>>
    /\ f_pc = "idle"
    /\ f_changed = FALSE
    /\ f_err = "none"
    /\ f_masker = 0
    /\ f_attrs = {}
    /\ f_cv = <<>>
    /\ f_tasks = <<>>
    /\ f_w = <<>>

\* __init__: store the parameters, then check_params
Construct ==
    /\ f_pc = "new"
    /\ f_err' = check_params(f_params)
    /\ f_pc' = IF f_err' = "none" THEN "constructed" ELSE "raised"
    /\ UNCHANGED <<f_params, f_changed, f_masker, f_attrs, f_cv, f_tasks, f_w>>

\* estimator.penalty = ..., and so on: nothing is checked on assignment
SetParam ==
    /\ f_pc = "constructed"
    /\ ~f_changed
    /\ \/ \E pen \in Penalties : f_params' = [f_params EXCEPT !.penalty = pen]
       \/ \E lo \in Losses : f_params' = [f_params EXCEPT !.loss = lo]
       \/ \E r \in L1Ratios : f_params' = [f_params EXCEPT !.l1_ratio = r]
       \/ \E pct \in Percentiles :
             f_params' = [f_params EXCEPT !.screening_percentile = pct]
    /\ f_params' # f_params
    /\ f_changed' = TRUE
    /\ UNCHANGED <<f_pc, f_err, f_masker, f_attrs, f_cv, f_tasks, f_w>>

\* fit up to the dispatch of the path_scores tasks
FitStart ==
    /\ f_pc = "constructed"
    /\ f_err' = check_params(f_params)
    /\ IF f_err' # "none"
       THEN /\ f_pc' = "raised"
            /\ UNCHANGED <<f_masker, f_attrs, f_cv, f_tasks, f_w>>
       ELSE /\ f_pc' = "running"
            /\ f_masker' = f_masker + 1
            /\ f_attrs' = AttrsBeforeTasks
                            \cup (IF f_params.is_classif
                                  THEN {"classes_", "n_classes_"} ELSE {})
            /\ f_cv' = cv_(f_params)
            /\ f_tasks' = [t \in (0..(n_problems(f_params) - 1))
                                   \X (1..Len(f_cv')) |->
                              FitTask(f_params, f_cv', t[1], t[2])]
            /\ f_w' = [c \in 1..n_problems(f_params) |->
                          [n |-> [i \in 1..(f_params.n_features + 1) |-> 0],
                           d |-> 1, nan |-> FALSE]]
    /\ UNCHANGED <<f_params, f_changed>>

\* one path_scores task runs and returns, whichever is scheduled
TaskRun ==
    /\ f_pc = "running"
    /\ \E t \in DOMAIN f_tasks, bw \in TaskWeights(f_params.n_features) :
          /\ f_tasks[t].status = "pending"
          /\ \E nan \in TaskNaN(f_tasks[t]) :
                f_tasks' = [f_tasks EXCEPT
                   ![t].status = "returned",
                   ![t].screened = do_screening(f_tasks[t].n_features,
                                                f_tasks[t].screening_percentile),
                   ![t].best_w = bw,
                   ![t].nan = nan]
    /\ UNCHANGED <<f_params, f_pc, f_changed, f_err, f_masker, f_attrs, f_cv,
                   f_w>>

\* w[c] += best_w for every result
SumOfFolds(tasks, c, n_folds, len) ==
    [i \in 1..len |-> SumRange([k \in 1..n_folds |-> tasks[<<c, k>>].best_w[i]],
                               1, n_folds)]

\* w[c] += best_w for every task whatever its class, then w /= n_folds
CollectAcrossClasses(tasks, c, n_folds, len) ==
    [n |-> [i \in 1..len |->
              SumRange([t \in 1..Cardinality(DOMAIN tasks) |->
                           tasks[<<(t - 1) \div n_folds,
                                   ((t - 1) % n_folds) + 1>>].best_w[i]],
                       1, Cardinality(DOMAIN tasks))],
     d |-> n_folds,
     nan |-> \E t \in DOMAIN tasks : tasks[t].nan]

\* the row of class c: the results of its folds summed, then w /= n_folds;
\* a sum with a nan term is nan
CollectRow(tasks, c, n_folds, len) ==
    [n |-> SumOfFolds(tasks, c, n_folds, len), d |-> n_folds,
     nan |-> \E k \in 1..n_folds : tasks[<<c, k>>].nan]

\* the results are collected once Parallel has returned, then the
\* coefficients are set
Collect ==
    /\ f_pc = "running"
    /\ \A t \in DOMAIN f_tasks : f_tasks[t].status = "returned"
    /\ f_w' = [c \in 1..n_problems(f_params) |->
                  CollectRow(f_tasks, c - 1, Len(f_cv),
                             f_params.n_features + 1)]
    /\ f_attrs' = f_attrs \cup AttrsAfterTasks
    /\ f_pc' = "fitted"
    /\ UNCHANGED <<f_params, f_changed, f_err, f_masker, f_cv, f_tasks>>

-----------------------------------------------------------------------------
(* space_net.py: the arrays of path_scores. An array is a buffer and a view *)
(* of it: basic indexing gives a view of the same buffer, indexing with a   *)
(* list or a boolean array and .copy() give a new buffer.                   *)

\* a name not bound yet
NoRef == [buf |-> 0, rows |-> <<>>, crop |-> FALSE]

\* the whole of a buffer of n rows (a matrix) or n entries (a vector)
WholeRef(b, n) == [buf |-> b, rows |-> [i \in 1..n |-> i], crop |-> FALSE]

\* a mask buffer, seen whole or through the slice _crop_mask returns
MaskRef(b, cropped) == [buf |-> b, rows |-> <<>>, crop |-> cropped]

\* the values an array shows
Deref(heap, r) == [i \in 1..Len(r.rows) |-> heap[r.buf][r.rows[i]]]

\* a[idx] for a slice: a view of the same buffer
BasicIndex(heap, r, idx) ==
    [heap |-> heap,
     ref  |-> [r EXCEPT !.rows = [i \in 1..Len(idx) |-> r.rows[idx[i]]]]]

\* a[idx] for a list of indices giving a view, as a slice does
AdvancedIndexAsView(heap, r, idx) == BasicIndex(heap, r, idx)

\* a[idx] for a list or an array of indices: a new buffer
AdvancedIndex(heap, r, idx) ==
    [heap |-> Append(heap, [i \in 1..Len(idx) |-> heap[r.buf][r.rows[idx[i]]]]),
     ref  |-> WholeRef(Len(heap) + 1, Len(idx))]

\* a.copy()
copy(heap, r) ==
    [heap |-> Append(heap, Deref(heap, r)),
     ref  |-> WholeRef(Len(heap) + 1, Len(r.rows))]

\* a[...] = vals, a -= ...: written into the buffer where the view points
Store(heap, r, vals) ==
    [heap EXCEPT ![r.buf] =
        [k \in DOMAIN @ |->
            IF \E i \in DOMAIN r.rows : r.rows[i] = k
            THEN vals[CHOOSE i \in DOMAIN r.rows : r.rows[i] = k]
            ELSE @[k]]]

\* the stand-in for the smoothed image of one sample
Smooth(row) == [j \in DOMAIN row |-> row[j] + row[(j % Len(row)) + 1]]

\* the loop over the samples: sX[sample] = filter(_unmask(X[sample].copy()))
RECURSIVE SmoothRows(_, _, _, _)
SmoothRows(heap, X, sX, sample) ==
    IF sample > Len(X.rows) THEN heap
    ELSE LET tmp == copy(heap, BasicIndex(heap, X, <<sample>>).ref)
             out == Smooth(heap[X.buf][X.rows[sample]])
         IN  SmoothRows(Store(tmp.heap, BasicIndex(tmp.heap, sX, <<sample>>).ref,
                              <<out>>),
                        X, sX, sample + 1)

\* ---- the arrays and folds tried ----
FrameSamples == 3

FrameX(mask) ==
    [s \in 1..FrameSamples |->
        [j \in 1..Cardinality(mask.on) |-> ((s * j) % 3) - 1]]

FrameY == <<0, 2, 1>>

\* the folds of the two tasks: two folds of a cross-validation, the same
\* fold for two classes, or the single fold without a test set
FrameFolds ==
    {<<[train |-> <<1, 2>>, test |-> <<3>>],
       [train |-> <<2, 3>>, test |-> <<1>>]>>,
     <<[train |-> <<1, 2>>, test |-> <<3>>],
       [train |-> <<1, 2>>, test |-> <<3>>]>>,
     <<[train |-> <<1, 2, 3>>, test |-> <<>>],
       [train |-> <<1, 2, 3>>, test |-> <<>>]>>}

\* two tasks of one fit: the same X, y, mask and percentile, their own folds
FrameCalls ==
    {[X |-> FrameX(mask), y |-> FrameY, mask |-> mask,
      screening_percentile |-> pct, folds |-> ff] :
        mask \in {SmallMask, BigMask}, pct \in {20, 100}, ff \in FrameFolds}

FrameTasks == {1, 2}

\* the buffers of the arrays fit passes to every task
XBuf == 1

YBuf == 2

MaskBuf == 3

InitFrame ==
    /\ h_args \in FrameCalls
    /\ h_heap = <<h_args.X, h_args.y, h_args.mask>>
    /\ h_env = [t \in FrameTasks |->
                   [X |-> WholeRef(XBuf, FrameSamples),
                    y |-> WholeRef(YBuf, FrameSamples),
                    mask |-> MaskRef(MaskBuf, FALSE),
                    X_train |-> NoRef, y_train |-> NoRef,
                    X_test |-> NoRef, y_test |-> NoRef]]
    /\ h_pc = [t \in FrameTasks |-> "start"]

IdleFrame ==
    /\ h_args = <<>>
    /\ h_heap = <<>>
    /\ h_env = <<>>
    /\ h_pc = <<>>

\* mask = mask.copy()
CopyMask(t) ==
    /\ h_pc[t] = "start"
    /\ h_heap' = Append(h_heap, h_heap[h_env[t].mask.buf])
    /\ h_env' = [h_env EXCEPT ![t].mask = MaskRef(Len(h_heap) + 1, FALSE)]
    /\ h_pc' = [h_pc EXCEPT ![t] =
                   IF do_screening(Len(h_heap[XBuf][1]),
                                   <<h_args.screening_percentile, 1>>)
                   THEN "screen" ELSE "crop"]
    /\ UNCHANGED h_args

\* _univariate_feature_screening, and the rebinding of X and mask
Screen(t) ==
    /\ h_pc[t] = "screen"
    /\ \E X \in {h_env[t].X}, mask \in {h_heap[h_env[t].mask.buf]} :
       \E selected \in SelectorSupports(mask, h_args.screening_percentile) :
       \* sX = np.empty(X.shape), filled sample by sample
       \E h1 \in {Append(h_heap, [i \in 1..Len(X.rows) |->
                                    [j \in 1..Len(h_heap[X.buf][1]) |-> 0]])} :
       \E h2 \in {SmoothRows(h1, X, WholeRef(Len(h1), Len(X.rows)), 1)} :
       \* mask_ = mask.copy(); mask_[mask] = (support > 0)
       \E h3 \in {Append(h2, [mask EXCEPT !.on = selected])} :
       \E scr \in {_univariate_feature_screening(mask, selected)} :
       \* the opening gives a new array; mask_[~mask] = 0 is written into it
       \E h4 \in {Append(h3, scr.mask)} :
       \E cols \in {SortedSeq(scr.support)} :
       \* X = X[:, support]
       \E Xs \in {[i \in 1..Len(X.rows) |->
                     [j \in 1..Len(cols) |-> h4[X.buf][X.rows[i]][cols[j]]]]} :
          /\ h_heap' = Append(h4, Xs)
          /\ h_env' = [h_env EXCEPT
                ![t].X = WholeRef(Len(h4) + 1, Len(X.rows)),
                ![t].mask = MaskRef(Len(h4), FALSE)]
    /\ h_pc' = [h_pc EXCEPT ![t] = "crop"]
    /\ UNCHANGED h_args

\* mask = _crop_mask(mask): a slice of the local mask; the minimum of an
\* empty index array raises ValueError
Crop(t) ==
    /\ h_pc[t] = "crop"
    /\ IF h_heap[h_env[t].mask.buf].on = {}
       THEN /\ h_pc' = [h_pc EXCEPT ![t] = "error"]
            /\ UNCHANGED h_env
       ELSE /\ h_pc' = [h_pc EXCEPT ![t] = "split"]
            /\ h_env' = [h_env EXCEPT ![t].mask = [@ EXCEPT !.crop = TRUE]]
    /\ UNCHANGED <<h_args, h_heap>>

\* X_train, y_train = X[train], y[train]; X_test, y_test = X[test], y[test]
Split(t) ==
    /\ h_pc[t] = "split"
    /\ LET fold == h_args.folds[t]
           a == AdvancedIndex(h_heap, h_env[t].X, fold.train)
           b == AdvancedIndex(a.heap, h_env[t].y, fold.train)
           c == AdvancedIndex(b.heap, h_env[t].X, fold.test)
           d == AdvancedIndex(c.heap, h_env[t].y, fold.test)
       IN  /\ h_heap' = d.heap
           /\ h_env' = [h_env EXCEPT ![t].X_train = a.ref, ![t].y_train = b.ref,
                                     ![t].X_test = c.ref, ![t].y_test = d.ref]
    /\ h_pc' = [h_pc EXCEPT ![t] = "center"]
    /\ UNCHANGED h_args

\* center_data(X_train, y_train, copy=False): the means are subtracted in the
\* arrays handed in (the values are kept times the number of train samples)
Center(t) ==
    /\ h_pc[t] = "center"
    /\ LET Xt == Deref(h_heap, h_env[t].X_train)
           yt == Deref(h_heap, h_env[t].y_train)
           m  == Len(Xt)
           id == [i \in 1..m |-> i]
           h1 == Store(h_heap, h_env[t].X_train,
                       CentredX(Xt, id, [j \in 1..Len(Xt[1]) |-> j]))
       IN  h_heap' = Store(h1, h_env[t].y_train, CentredY(yt, id))
    /\ h_pc' = [h_pc EXCEPT ![t] = "solve"]
    /\ UNCHANGED <<h_args, h_env>>

\* the alpha grid, the scan and the refit read the arrays and write none
SolveAndReturn(t) ==
    /\ h_pc[t] = "solve"
    /\ h_pc' = [h_pc EXCEPT ![t] = "done"]
    /\ UNCHANGED <<h_args, h_heap, h_env>>

-----------------------------------------------------------------------------
(* space_net.py: BaseSpaceNet.decision_function and predict, for a fitted  *)
(* classifier with one feature and two samples to label                    *)

\* _standardize_X on two samples of one feature: (x - mean) / std is 1 for
\* the larger and -1 for the smaller, and 0 / 0 = nan when they are equal
_standardize_X(X) ==
    [s \in DOMAIN X |->
        IF X[1] = X[2] THEN NaN
        ELSE IF X[s] > X[3 - s] THEN Fin(1, 1) ELSE Fin(-1, 1)]

\* x * c + b for a float x and integers c, b
Affine(x, c, b) == IF x.t = "nan" THEN NaN ELSE Fin(x.n * c + b * x.d, x.d)

\* decision_function: per sample, the scores X . coef_.T + intercept_
decision_function(model, X) ==
    [s \in DOMAIN X |->
        [c \in DOMAIN model.coef_ |->
            Affine(X[s], model.coef_[c], model.intercept_[c])]]

\* scores.argmax taking the last of the largest scores
ArgmaxLast(row) ==
    CHOOSE i \in DOMAIN row :
        /\ \A j \in DOMAIN row : ~FloatGt(row[j], row[i])
        /\ \A j \in DOMAIN row :
              (j > i) => \E k \in DOMAIN row : FloatGt(row[k], row[j])

\* scores.argmax(axis=1) on one row: the first entry no other exceeds (a nan
\* counts as the maximum)
argmax(row) ==
    CHOOSE i \in DOMAIN row :
        /\ \A j \in DOMAIN row : ~FloatGt(row[j], row[i])
        /\ \A j \in DOMAIN row :
              (j < i) => \E k \in DOMAIN row : FloatGt(row[k], row[j])

\* predict: the labels of the samples
predict(model, X) ==
    LET Xs     == IF model.standardize THEN _standardize_X(X)
                  ELSE [s \in DOMAIN X |-> Fin(X[s], 1)]
        scores == decision_function(model, Xs)
    IN  [s \in DOMAIN X |->
            IF Len(model.coef_) = 1
            THEN \* scores is raveled: indices = (scores > 0)
                 IF FloatGt(scores[s][1], Fin(0, 1))
                 THEN model.classes_[2] ELSE model.classes_[1]
            ELSE model.classes_[argmax(scores[s])]]

PredictSamples == 2

PredictClasses == <<"a", "b", "c">>

\* the fitted classifiers: one row of coef_ for two classes, one per class
\* for three
PredictModels ==
    {[coef_ |-> co, intercept_ |-> ic, standardize |-> st,
      classes_ |-> SubSeq(PredictClasses, 1, IF n = 1 THEN 2 ELSE n)] :
        n \in {1, 3}, co \in UNION {[1..k -> {-1, 0, 1}] : k \in {1, 3}},
        ic \in UNION {[1..k -> {0, 1}] : k \in {1, 3}}, st \in BOOLEAN}

InitPredict ==
    /\ pr_model \in {mo \in PredictModels :
                        /\ Len(mo.coef_) = Len(mo.intercept_)
                        /\ Len(mo.classes_) = IF Len(mo.coef_) = 1 THEN 2
                                              ELSE Len(mo.coef_)}
    /\ pr_X \in [1..PredictSamples -> {-1, 0, 2}]
    /\ pr_out = <<>>
    /\ pr_pc = "in"

IdlePredict ==
    /\ pr_model = <<>>
    /\ pr_X = <<>>
    /\ pr_out = <<>>
    /\ pr_pc = "idle"

\* estimator.decision_function(X) on masked samples
CallDecisionFunction ==
    /\ pr_pc = "in"
    /\ pr_out' = decision_function(pr_model,
                                   [s \in DOMAIN pr_X |-> Fin(pr_X[s], 1)])
    /\ pr_pc' = "scored"
    /\ UNCHANGED <<pr_model, pr_X>>

\* estimator.predict(X)
CallPredict ==
    /\ pr_pc = "in"
    /\ pr_out' = predict(pr_model, pr_X)
    /\ pr_pc' = "predicted"
    /\ UNCHANGED <<pr_model, pr_X>>

-----------------------------------------------------------------------------
(* mfista, the accelerated proximal-gradient solver: its loop as the        *)
(* specification describes it (the solver module is not part of the         *)
(* sources). What f, its gradient, the prox and the callback compute is     *)
(* left open: each iteration takes any energy, gap and callback answer.     *)

MaxIter == 3

\* how often one solve may double the Lipschitz estimate
MaxDoublings == 2

\* the rejected steps in a row after which check_monotonous gives up
StallBudget == 2

\* dgap_factor = None
NoDgap == <<0, 0>>

MfistaEnergies == {-3, 0, 2}

\* duality-gap estimates, as <<numerator, denominator>>
MfistaGaps == {<<0, 1>>, <<1, 10>>, <<1, 1>>}

\* max(1, |energy|)
Max1Abs(e) == IF Abs(e) > 1 THEN Abs(e) ELSE 1

\* the duality gap is below dgap_factor * max(1, |energy|)
GapBelow(cfg, gap, energy) ==
    /\ cfg.dgap_factor # NoDgap
    /\ gap[1] * cfg.dgap_factor[2]
           < cfg.dgap_factor[1] * Max1Abs(energy) * gap[2]

\* the reason to leave the loop after iteration k without asking the callback
StopReasonIgnoringCallback(cfg, k, gap, energy, cb, stall) ==
    IF GapBelow(cfg, gap, energy) THEN "dgap"
    ELSE IF cfg.check_monotonous /\ stall >= StallBudget THEN "stall"
    ELSE IF k >= cfg.max_iter THEN "max_iter"
    ELSE "none"

\* the reason to leave the loop after iteration k, "none" to go on
StopReason(cfg, k, gap, energy, cb, stall) ==
    IF cb THEN "callback"
    ELSE IF GapBelow(cfg, gap, energy) THEN "dgap"
    ELSE IF cfg.check_monotonous /\ stall >= StallBudget THEN "stall"
    ELSE IF k >= cfg.max_iter THEN "max_iter"
    ELSE "none"

\* the problem sizes
MfistaSizes == {1, 2}

\* an iterate of the problem's size, all entries produced by iteration k
Iterate_k(size, k) == [i \in 1..size |-> k]

\* the first iteration with the least energy of the trajectory
BestIteration(energies) ==
    CHOOSE i \in DOMAIN energies :
        /\ \A j \in DOMAIN energies : energies[i] <= energies[j]
        /\ \A j \in 1..(i - 1) : energies[j] > energies[i]

\* the current duality-gap tolerance, dgap_factor * max(1, |energy|)
dgap_tol(cfg, energies) ==
    IF cfg.dgap_factor = NoDgap THEN NoDgap
    ELSE <<cfg.dgap_factor[1] * Max1Abs(energies[Len(energies)]),
           cfg.dgap_factor[2]>>

\* the step size 1 / L, L the initial estimate 1 doubled `doublings` times
stepsize(doublings) == <<1, Pow(2, doublings)>>

\* a state dict that lacks the tolerance
StateWithoutTol(w, t, tol, step) == [w |-> w, t |-> t, stepsize |-> step]

\* the state dict to restart from
State(w, t, tol, step) ==
    [w |-> w, t |-> t, dgap_tol |-> tol, stepsize |-> step]

\* the keys a solve reads from the init it is given
InitKeys == {"w", "t", "dgap_tol", "stepsize"}

InitMfista ==
    /\ mf_cfg \in [pure_ista : BOOLEAN, backtracking : BOOLEAN,
                   check_monotonous : BOOLEAN,
                   dgap_factor : {NoDgap, <<1, 10>>}, max_iter : 1..MaxIter,
                   size : MfistaSizes]
    /\ mf_k = 0
    /\ mf_L = 0
    /\ mf_energy = <<>>
    /\ mf_seen = <<>>
    /\ mf_stall = 0
    /\ mf_pc = "iterating"
    /\ mf_w = Iterate_k(mf_cfg.size, 0)
    /\ mf_t = 0
    /\ mf_warm = FALSE
    /\ mf_ret = NoReturn

IdleMfista ==
    /\ mf_cfg = <<>>
    /\ mf_k = 0
    /\ mf_L = 0
    /\ mf_energy = <<>>
    /\ mf_seen = <<>>
    /\ mf_stall = 0
    /\ mf_pc = "idle"
    /\ mf_w = <<>>
    /\ mf_t = 0
    /\ mf_warm = FALSE
    /\ mf_ret = NoReturn

\* backtracking: the step exceeds its quadratic majorant, L is doubled and
\* the step retried
Backtrack ==
    /\ mf_pc = "iterating"
    /\ mf_cfg.backtracking
    /\ mf_L < MaxDoublings
    /\ mf_L' = mf_L + 1
    /\ UNCHANGED <<mf_cfg, mf_k, mf_energy, mf_seen, mf_stall, mf_pc,
                   mf_w, mf_t, mf_warm, mf_ret>>

\* one iteration: gradient step and prox, the monotonicity safeguard, the
\* momentum update, the callback, the termination tests
Iterate ==
    /\ mf_pc = "iterating"
    /\ mf_k < mf_cfg.max_iter
    /\ \E e \in MfistaEnergies, gap \in MfistaGaps, cb \in BOOLEAN :
          LET old      == IF mf_energy = <<>> THEN e
                          ELSE mf_energy[Len(mf_energy)]
              rejected == mf_cfg.check_monotonous /\ e > old
              energy   == IF rejected THEN old ELSE e
              stall    == IF rejected THEN mf_stall + 1 ELSE 0
              why      == StopReason(mf_cfg, mf_k + 1, gap, energy, cb, stall)
          IN  /\ mf_k' = mf_k + 1
              /\ mf_energy' = Append(mf_energy, energy)
              /\ mf_seen' = Append(mf_seen, cb \/ GapBelow(mf_cfg, gap, energy))
              /\ mf_stall' = stall
              /\ mf_w' = IF rejected THEN mf_w
                         ELSE Iterate_k(mf_cfg.size, mf_k + 1)
              /\ mf_pc' = IF why = "none" THEN "iterating" ELSE why
    /\ mf_t' = IF mf_cfg.pure_ista THEN mf_t ELSE mf_t + 1
    /\ UNCHANGED <<mf_cfg, mf_L, mf_warm, mf_ret>>

\* the best iterate, the energies and the state to restart from are returned
MfistaReturn ==
    /\ mf_pc \in {"callback", "dgap", "stall", "max_iter"}
    /\ mf_pc' = "returned"
    /\ mf_ret' = [w        |-> Iterate_k(mf_cfg.size,
                                         BestIteration(mf_energy)),
                  energies |-> mf_energy,
                  state    |-> State(mf_w, mf_t,
                                     dgap_tol(mf_cfg, mf_energy),
                                     stepsize(mf_L))]
    /\ UNCHANGED <<mf_cfg, mf_k, mf_L, mf_energy, mf_seen, mf_stall,
                   mf_w, mf_t, mf_warm>>

\* a subsequent solve of the same problem, given the returned state as init
WarmStart ==
    /\ mf_pc = "returned"
    /\ ~mf_warm
    /\ InitKeys \subseteq DOMAIN mf_ret.state
    /\ mf_w' = mf_ret.state.w
    /\ mf_t' = mf_ret.state.t
    /\ mf_warm' = TRUE
    /\ mf_k' = 0
    /\ mf_energy' = <<>>
    /\ mf_seen' = <<>>
    /\ mf_stall' = 0
    /\ mf_pc' = "iterating"
    /\ mf_ret' = NoReturn
    /\ UNCHANGED <<mf_cfg, mf_L>>

-----------------------------------------------------------------------------
(* The Lipschitz constants of the two losses and the gradients they bound.  *)
(* A matrix is a sequence of rows. The largest eigenvalue of a Gram matrix  *)
(* with at most two columns is kept as the trace T and determinant D of    *)
(* that matrix: it is the larger root (T + sqrt(T^2 - 4 D)) / 2 of          *)
(* x^2 - T x + D. The sigmoid is transcendental: of two of its values only  *)
(* the difference is kept, as the mean slope between the two arguments      *)
(* times their distance, the slope any of 0, 1/8 and 1/4 = max sigmoid'.    *)

\* np.dot(X, w)
MatVec(X, w) == [i \in DOMAIN X |-> Inner(X[i], w)]

\* np.dot(X.T, r)
TMatVec(X, r) == [j \in DOMAIN X[1] |-> XtDot(X, r, j)]

\* linalg.svdvals(X)[0] ** 2, the largest eigenvalue of X.T X
spectral_norm_squared(X) ==
    LET g(j, k) == SumOver([i \in DOMAIN X |-> X[i][j] * X[i][k]], DOMAIN X)
    IN  IF Len(X[1]) = 1 THEN [T |-> g(1, 1), D |-> 0]
        ELSE [T |-> g(1, 1) + g(2, 2),
              D |-> g(1, 1) * g(2, 2) - g(1, 2) * g(2, 1)]

\* the constant of X itself, without the column of the intercept
LipschitzConstantWithoutIntercept(X) == spectral_norm_squared(X)

\* np.hstack((X, np.ones(X.shape[0])[:, np.newaxis]))
hstack_ones(X) == [i \in DOMAIN X |-> Append(X[i], 1)]

logistic_loss_lipschitz_constant(X) == spectral_norm_squared(hstack_ones(X))

\* squared_loss(X, y, w, compute_energy=False, compute_grad=True)
squared_loss_grad(X, y, w) ==
    LET Xw       == MatVec(X, w)
        residual == [i \in DOMAIN X |-> Xw[i] - y[i]]
    IN  TMatVec(X, residual)

\* z = np.dot(X, w[:-1]) + w[-1]; yz = y * z
LogisticYZ(X, y, w) ==
    [i \in DOMAIN X |-> y[i] * (Inner(X[i], DropLast(w)) + w[Len(w)])]

\* 8 * (_sigmoid(a) - _sigmoid(b)), slope8 / 8 the mean slope between a and b
SigmoidDiff8(a, b, slope8) == slope8 * (a - b)

\* 8 * (logistic_loss_grad(X, y, w) - logistic_loss_grad(X, y, w2)):
\* z0 = (sigmoid(yz) - 1) * y, grad[:-1] = X.T z0, grad[-1] = sum(z0)
LogisticGradDiff8(X, y, w, w2, slopes) ==
    LET yz  == LogisticYZ(X, y, w)
        yz2 == LogisticYZ(X, y, w2)
        dz0 == [i \in DOMAIN X |->
                   SigmoidDiff8(yz[i], yz2[i], slopes[i]) * y[i]]
    IN  TMatVec(hstack_ones(X), dz0)

\* ||g / scale||^2 <= L^2 ||d||^2, L the larger root of x^2 - T x + D:
\* 2 ||g||^2 - scale^2 (T^2 - 2 D) ||d||^2 <= scale^2 T sqrt(T^2 - 4 D) ||d||^2
WithinLipschitz(g, scale, L, d) ==
    LET dd == Inner(d, d)
        A  == 2 * Inner(g, g) - scale * scale * (L.T * L.T - 2 * L.D) * dd
        B  == scale * scale * L.T * dd
    IN  A <= 0 \/ A * A <= B * B * (L.T * L.T - 4 * L.D)

\* the scalings of the design matrix
LipScalings == {1, 2}

LipEntries == {-1, 0, 1}

LipSamples == 1..2

\* the matrices of two samples and n columns, each at each scaling
LipMatrices(n) ==
    {[i \in LipSamples |-> [j \in 1..n |-> c * X[i][j]]] :
        X \in [LipSamples -> [1..n -> LipEntries]], c \in LipScalings}

InitLip ==
    /\ \/ lip_in \in [loss : {"mse"}, X : LipMatrices(2),
                       y : {<<0, 0>>, <<1, -1>>},
                       w : [1..2 -> LipEntries],
                       w2 : {<<0, 0>>, <<1, -1>>}]
       \/ lip_in \in [loss : {"logistic"}, X : LipMatrices(1),
                       y : [LipSamples -> {-1, 1}],
                       w : [1..2 -> {0, 1}],
                       w2 : [1..2 -> {0, 1}]]
    /\ lip_out = NoReturn
    /\ lip_pc = "in"

IdleLip ==
    /\ lip_in = <<>>
    /\ lip_out = NoReturn
    /\ lip_pc = "idle"

\* spectral_norm_squared(X) and the gradient of the squared loss at w and w'
CallSquaredLoss ==
    /\ lip_pc = "in"
    /\ lip_in.loss = "mse"
    /\ LET g  == squared_loss_grad(lip_in.X, lip_in.y, lip_in.w)
           g2 == squared_loss_grad(lip_in.X, lip_in.y, lip_in.w2)
       IN  lip_out' = [L     |-> spectral_norm_squared(lip_in.X),
                       gdiff |-> [j \in DOMAIN g |-> g[j] - g2[j]],
                       scale |-> 1]
    /\ lip_pc' = "done"
    /\ UNCHANGED lip_in

\* logistic_loss_lipschitz_constant(X) and the gradient of the logistic loss
\* at w and w'
CallLogisticLoss ==
    /\ lip_pc = "in"
    /\ lip_in.loss = "logistic"
    /\ \E slopes \in [LipSamples -> {0, 1, 2}] :
          lip_out' = [L     |-> logistic_loss_lipschitz_constant(lip_in.X),
                      gdiff |-> LogisticGradDiff8(lip_in.X, lip_in.y,
                                                  lip_in.w, lip_in.w2, slopes),
                      scale |-> 8]
    /\ lip_pc' = "done"
    /\ UNCHANGED lip_in

-----------------------------------------------------------------------------
(* The specifications, one per component *)

notOps ==
    <<gridVars, esVars, pathVars, fitVars,
      frameVars, predictVars, mfistaVars, lipVars>>

notGrid ==
    <<opsVars, esVars, pathVars, fitVars,
      frameVars, predictVars, mfistaVars, lipVars>>

notES ==
    <<opsVars, gridVars, pathVars, fitVars,
      frameVars, predictVars, mfistaVars, lipVars>>

notPath ==
    <<opsVars, gridVars, esVars, fitVars,
      frameVars, predictVars, mfistaVars, lipVars>>

notFit ==
    <<opsVars, gridVars, esVars, pathVars,
      frameVars, predictVars, mfistaVars, lipVars>>

notFrame ==
    <<opsVars, gridVars, esVars, pathVars,
      fitVars, predictVars, mfistaVars, lipVars>>

notPredict ==
    <<opsVars, gridVars, esVars, pathVars,
      fitVars, frameVars, mfistaVars, lipVars>>

notMfista ==
    <<opsVars, gridVars, esVars, pathVars,
      fitVars, frameVars, predictVars, lipVars>>

notLip ==
    <<opsVars, gridVars, esVars, pathVars,
      fitVars, frameVars, predictVars, mfistaVars>>

NextOps ==
    \/ CallGradientId /\ UNCHANGED notOps
    \/ CallDivId /\ UNCHANGED notOps

InitSpecOps ==
    /\ InitOps
    /\ IdleGrid /\ IdleES /\ IdlePath /\ IdleFit
    /\ IdleFrame /\ IdlePredict /\ IdleMfista /\ IdleLip

SpecOps == InitSpecOps /\ [][NextOps]_vars

NextGrid == CallAlphaGrid /\ UNCHANGED notGrid

InitSpecGrid ==
    /\ InitGrid
    /\ IdleOps /\ IdleES /\ IdlePath /\ IdleFit
    /\ IdleFrame /\ IdlePredict /\ IdleMfista /\ IdleLip

SpecGrid == InitSpecGrid /\ [][NextGrid]_vars

NextES == \E score \in CallScores :
            CallEarlyStopper(score) /\ UNCHANGED notES

InitSpecES ==
    /\ InitES
    /\ IdleOps /\ IdleGrid /\ IdlePath /\ IdleFit
    /\ IdleFrame /\ IdlePredict /\ IdleMfista /\ IdleLip

SpecES == InitSpecES /\ [][NextES]_vars

NextPath ==
    \/ PathSetup /\ UNCHANGED notPath
    \/ ScanAlpha /\ UNCHANGED notPath
    \/ Refit /\ UNCHANGED notPath

InitSpecPath ==
    /\ InitPath
    /\ IdleOps /\ IdleGrid /\ IdleES /\ IdleFit
    /\ IdleFrame /\ IdlePredict /\ IdleMfista /\ IdleLip

SpecPath == InitSpecPath /\ [][NextPath]_vars

NextFit ==
    \/ Construct /\ UNCHANGED notFit
    \/ SetParam /\ UNCHANGED notFit
    \/ FitStart /\ UNCHANGED notFit
    \/ TaskRun /\ UNCHANGED notFit
    \/ Collect /\ UNCHANGED notFit

InitSpecFit ==
    /\ InitFit
    /\ IdleOps /\ IdleGrid /\ IdleES /\ IdlePath
    /\ IdleFrame /\ IdlePredict /\ IdleMfista /\ IdleLip

SpecFit == InitSpecFit /\ [][NextFit]_vars

NextFrame ==
    \/ \E t \in FrameTasks : CopyMask(t) /\ UNCHANGED notFrame
    \/ \E t \in FrameTasks : Screen(t) /\ UNCHANGED notFrame
    \/ \E t \in FrameTasks : Crop(t) /\ UNCHANGED notFrame
    \/ \E t \in FrameTasks : Split(t) /\ UNCHANGED notFrame
    \/ \E t \in FrameTasks : Center(t) /\ UNCHANGED notFrame
    \/ \E t \in FrameTasks : SolveAndReturn(t) /\ UNCHANGED notFrame

InitSpecFrame ==
    /\ InitFrame
    /\ IdleOps /\ IdleGrid /\ IdleES /\ IdlePath
    /\ IdleFit /\ IdlePredict /\ IdleMfista /\ IdleLip

SpecFrame == InitSpecFrame /\ [][NextFrame]_vars

NextPredict ==
    \/ CallDecisionFunction /\ UNCHANGED notPredict
    \/ CallPredict /\ UNCHANGED notPredict

InitSpecPredict ==
    /\ InitPredict
    /\ IdleOps /\ IdleGrid /\ IdleES /\ IdlePath
    /\ IdleFit /\ IdleFrame /\ IdleMfista /\ IdleLip

SpecPredict == InitSpecPredict /\ [][NextPredict]_vars

NextMfista ==
    \/ Backtrack /\ UNCHANGED notMfista
    \/ Iterate /\ UNCHANGED notMfista
    \/ MfistaReturn /\ UNCHANGED notMfista
    \/ WarmStart /\ UNCHANGED notMfista

InitSpecMfista ==
    /\ InitMfista
    /\ IdleOps /\ IdleGrid /\ IdleES /\ IdlePath
    /\ IdleFit /\ IdleFrame /\ IdlePredict /\ IdleLip

SpecMfista == InitSpecMfista /\ [][NextMfista]_vars

NextLip ==
    \/ CallSquaredLoss /\ UNCHANGED notLip
    \/ CallLogisticLoss /\ UNCHANGED notLip

InitSpecLip ==
    /\ InitLip
    /\ IdleOps /\ IdleGrid /\ IdleES /\ IdlePath
    /\ IdleFit /\ IdleFrame /\ IdlePredict /\ IdleMfista

SpecLip == InitSpecLip /\ [][NextLip]_vars

-----------------------------------------------------------------------------
(* C1: adjointness of gradient_id and div_id *)

\* C1 as claimed: <gradient_id(u, r), v> = <u, div_id(v, r)> for every image
\* u, stacked array v and l1_ratio r.
C1_AdjointAsClaimed ==
    ops_pc = "both" => InnerStack(gout, stk) = Inner(img, dout)

\* C1 amended: div_id is the NEGATIVE adjoint of gradient_id,
\* <gradient_id(u, r), v> = -<u, div_id(v, r)> for every u, v and r.
C1_NegativeAdjoint ==
    ops_pc = "both" => InnerStack(gout, stk) = 0 - Inner(img, dout)

\* a 3-D image and a stacked array with l1_ratio = 1/2 whose inner product
\* is not zero, so that the sign matters
C1_Witness ==
    /\ ops_pc = "both"
    /\ l1r = <<1, 2>>
    /\ Len(ShapeOf(img)) = 3
    /\ InnerStack(gout, stk) # 0

-----------------------------------------------------------------------------
(* C2: the alpha grid is positive, decreasing, from alpha_max to alpha_max * eps *)

\* C2 as claimed: for any X, y, n_alphas >= 1, 0 < eps < 1, l1_ratio in [0, 1]
\* and either loss, the grid holds n_alphas finite values, all strictly
\* positive and strictly decreasing, the first alpha_max and (n_alphas > 1) the
\* last alpha_max * eps.
C2_GridAsClaimed ==
    ag_pc = "done" =>
        LET n    == ag_in.n_alphas
            amax == ag_out[1]
        IN  /\ Len(ag_out) = n
            /\ amax = AlphaMax(ag_in.X, 1, ag_in.y, 1, ag_in.feats,
                               ag_in.l1_ratio, ag_in.logistic)
            /\ \A k \in 1..n : IsFin(ag_out[k]) /\ ag_out[k].n > 0
            /\ \A k \in 1..(n - 1) : FinLess(ag_out[k + 1], ag_out[k])
            /\ n > 1 => FinEq(ag_out[n],
                              Fin(amax.n, amax.d * Pow(ag_in.root, n - 1)))

-----------------------------------------------------------------------------
(* C4: when a checkpoint call returns the stop signal *)

\* the last five recorded scores, oldest first
C4_Recorded == LastK(es_test_scores, 5)

\* C4 as claimed: at a checkpoint call the stop signal is returned iff the
\* mean of the first differences of the last 5 recorded scores, in the order
\* in which they were recorded, is >= -1e-4.
C4_StopAsClaimed ==
    es_ret \in {"True", "False"} =>
        (es_ret = "True" <=>
            GeRational(SumSeq(Diff(C4_Recorded)), 0 - 4, 1))

\* C4 amended: at a checkpoint call the stop signal is returned iff the mean
\* of the first differences of the last 5 recorded scores taken newest first
\* is >= -1e-4: the five are finite and newest - oldest <= 4e-4, or the four
\* older ones are finite and the newest is -inf.
C4_StopOnReversedWindow ==
    es_ret \in {"True", "False"} =>
        LET w == C4_Recorded
        IN  es_ret = "True" <=>
              /\ \A i \in 1..4 : IsFin(w[i])
              /\ \/ IsFin(w[5]) /\ w[5].n * w[1].d - w[1].n * w[5].d
                                      <= 4 * w[1].d * w[5].d
                 \/ w[5] = NegInf

\* a checkpoint whose scores fell over the window: the call stops, while the
\* recorded-order mean (-9e-4 / 4) is below the threshold
C4_Witness ==
    /\ es_ret = "True"
    /\ es_counter = 22
    /\ es_test_scores[18] = Fin(9, 1)
    /\ es_test_scores[22] = Fin(0, 1)

-----------------------------------------------------------------------------
(* C5: the stop signal is returned at checkpoints only *)

\* C5: every call records one score; a call returns True only at call numbers
\* 22, 32, 42, ... and returns None at every other call, whatever the scores.
C5_OnlyAtCheckpoints ==
    /\ Len(es_test_scores) = es_counter
    /\ es_ret = "True" =>
          es_counter \in {22 + 10 * k : k \in 0..MaxCalls}
    /\ (es_counter >= 1 /\ es_counter \notin {22 + 10 * k : k \in 0..MaxCalls})
          => es_ret = "None"

\* the second checkpoint stops
C5_Witness ==
    /\ es_counter = 32
    /\ es_ret = "True"
    /\ Len(es_test_scores) = 32

-----------------------------------------------------------------------------
(* path_scores: the properties *)

\* the scan over the alphas is over (it ran, on a non-empty test set)
ScanFinished ==
    /\ p_pc \in {"refit", "done", "error"}
    /\ p_scan # <<>>
    /\ Len(p_scan) = Len(p_alphas)

\* the turns of the scan with a finite primary score
FiniteScanned == {i \in 1..Len(p_scan) : IsFin(p_scan[i].score)}

\* turn i beats turn j: primary score first, secondary score on ties
LexGt(i, j) ==
    \/ FloatGt(p_scan[i].score, p_scan[j].score)
    \/ /\ FloatEq(p_scan[i].score, p_scan[j].score)
       /\ FloatGt(p_scan[i].secundary, p_scan[j].secundary)

\* the turn of the scan best_alpha comes from: the first when none was kept
BestIndex == IF p_best.at = 0 THEN 1 ELSE p_best.at

\* the weights without the intercept
Coef(w) == IF p_args.is_classif THEN DropLast(w) ELSE w

\* the final re-solve, once made
RefitCall == p_calls[Len(p_calls)]

RefitMade == p_calls # <<>> /\ ~RefitCall.callback

C6_ConstantNeverSelected ==
    /\ \A i \in 1..Len(p_scan) :
          ZeroRange(Coef(p_scan[i].w)) =>
              p_scan[i].score = NegInf /\ p_scan[i].secundary = NegInf
    /\ ScanFinished => ~ZeroRange(Coef(p_scan[BestIndex].w))

\* C6 (amended): a zero-range weight vector scores (-inf, -inf) and never
\* replaces the best alpha; best_alpha is an alpha with a constant solution only
\* by default: it is then the largest alpha and no alpha scored finite
C6_ConstantOnlyByDefault ==
    /\ \A i \in 1..Len(p_scan) :
          ZeroRange(Coef(p_scan[i].w)) =>
              /\ p_scan[i].score = NegInf /\ p_scan[i].secundary = NegInf
              /\ p_best.at # i
    /\ ScanFinished =>
          (ZeroRange(Coef(p_scan[BestIndex].w)) =>
              BestIndex = 1 /\ p_best.at = 0 /\ FiniteScanned = {})

\* a constant solution was scanned first, a later alpha was selected
C6_Witness ==
    /\ p_pc = "done"
    /\ ScanFinished
    /\ ZeroRange(Coef(p_scan[1].w))
    /\ p_best.at > 1
    /\ p_ret.best_alpha = p_alphas[p_best.at]

\* all entries equal
ConstantSeq(q) == \A i, j \in 1..Len(q) : q[i] = q[j]

\* C7 (as stated): whenever y_test is constant or the prediction X_test.w is
\* constant, the score of the alpha is -inf (not nan)
C7_SentinelAsClaimed ==
    \A i \in 1..Len(p_scan) :
        (\/ ConstantSeq([s \in 1..Len(p_args.test) |-> p_args.y[p_args.test[s]]])
         \/ ConstantSeq(Predict(p_args.X, p_args.test, p_cols, Coef(p_scan[i].w))))
        => p_scan[i].score = NegInf

\* C8 (as stated): with an empty test set the call ends by returning, after
\* exactly one solver call, test_scores == [nan], the largest alpha, and
\* n_features + 1 weights
C8_EmptyTestAsClaimed ==
    (p_args.test = <<>> /\ p_pc \in {"done", "error"}) =>
        /\ p_pc = "done"
        /\ Len(p_calls) = 1
        /\ p_ret.test_scores = <<NaN>>
        /\ p_ret.best_alpha = p_alphas[1]
        /\ \A i \in 1..Len(p_alphas) : ~FloatGt(p_alphas[i], p_alphas[1])
        /\ Len(p_ret.best_w.n) = Len(p_args.X[1]) + 1

\* the factor _debias multiplies the weights by, as <<numerator, denominator>>:
\* <X_test.w, y_test> / ||X_test.w||^2, and 1 when the denominator is 0
DebiasFactor(w) ==
    LET a       == p_args
        m       == Len(a.test)
        y_pred  == Predict(a.X, a.test, p_cols, w)
        scaling == SumTo([s \in 1..m |-> y_pred[s] * y_pred[s]], m)
    IN  IF a.debias /\ scaling > 0
        THEN <<SumTo([s \in 1..m |-> y_pred[s] * a.y[a.test[s]]], m), scaling>>
        ELSE <<1, 1>>

\* the parts of C9 that do not depend on debias: fewer columns at every solver
\* call, a vector over the original features plus one entry, 0 at the dropped
\* features, the classification intercept last
C9_Layout ==
    LET n_features == Len(p_args.X[1])
        best_w     == p_ret.best_w
    IN  /\ \A c \in 1..Len(p_calls) : p_calls[c].ncols < n_features
        /\ Len(best_w.n) = n_features + 1
        /\ \A i, k \in 1..Len(p_cols) : i < k => p_cols[i] < p_cols[k]
        /\ \A j \in 1..n_features :
              (\A i \in 1..Len(p_cols) : p_cols[i] # j) => best_w.n[j] = 0
        /\ p_args.is_classif =>
              best_w.n[n_features + 1] = p_ret.solved[Len(p_ret.solved)] * best_w.d

C10_MaskMatchesColumns ==
    /\ \A c \in 1..Len(p_calls) : p_calls[c].nvox = p_calls[c].ncols
    /\ p_calls # <<>> =>
          \A v \in p_mask.on :
              [d \in 1..3 |-> v[d] + p_mask.off[d]] \in p_args.mask.on

\* the solver was called on a screened mask, cropped away from the origin
C10_Witness ==
    /\ Len(p_calls) > 1
    /\ DoScreening(p_args)
    /\ p_mask.off # <<0, 0, 0>>
    /\ Cardinality(p_mask.on) < Cardinality(p_args.mask.on)

-----------------------------------------------------------------------------
(* C11: invalid parameters are rejected before anything runs *)

\* the parameters passed the last check_params: the estimator was constructed
\* and not changed since, or fit went past its first statement
PassedCheck ==
    \/ (f_pc = "constructed" /\ ~f_changed)
    \/ f_pc \in {"running", "fitted"}

\* the parameters C11 lists, the names taken as written
InvalidAsWritten(q) ==
    \/ q.penalty \notin SUPPORTED_PENALTIES
    \/ (q.loss # None /\ q.loss \notin SUPPORTED_LOSSES)
    \/ ~InInterval(q.l1_ratio, 0, 1)
    \/ ~InInterval(<<q.screening_percentile, 1>>, 0, 100)
    \/ (q.loss = "logistic" /\ ~q.is_classif)

\* the same with the names compared without regard to case
InvalidIgnoringCase(q) ==
    \/ lower(q.penalty) \notin SUPPORTED_PENALTIES
    \/ (q.loss # None /\ lower(q.loss) \notin SUPPORTED_LOSSES)
    \/ ~InInterval(q.l1_ratio, 0, 1)
    \/ ~InInterval(<<q.screening_percentile, 1>>, 0, 100)
    \/ (q.loss # None /\ lower(q.loss) = "logistic" /\ ~q.is_classif)

\* nothing ran and nothing was set when ValueError was raised
RaisedCleanly ==
    f_pc = "raised" =>
        /\ f_err = "ValueError"
        /\ f_masker = 0
        /\ f_tasks = <<>>
        /\ f_attrs = {}

\* C11 as claimed: an estimator whose penalty is outside {smooth-lasso, tv-l1},
\* whose non-None loss is outside {mse, logistic}, whose l1_ratio or
\* screening_percentile is out of range, or which asks for the logistic loss
\* on a regression, never passes construction or the start of fit.
C11_RejectedAsWritten ==
    /\ PassedCheck => ~InvalidAsWritten(f_params)
    /\ RaisedCleanly

\* C11, amended: with the penalty and loss names compared case-insensitively,
\* creating an estimator, or calling fit on one whose parameters were changed
\* after construction, with such a parameter raises ValueError before the
\* masker or any path_scores task is invoked, and no fitted attribute is set.
C11_RejectedIgnoringCase ==
    /\ PassedCheck => ~InvalidIgnoringCase(f_params)
    /\ RaisedCleanly

\* fit raised on an estimator made invalid after its construction
C11_Witness ==
    /\ f_pc = "raised"
    /\ f_changed
    /\ InvalidIgnoringCase(f_params)
    /\ f_params.penalty = "lasso"
    /\ f_err = "ValueError"

-----------------------------------------------------------------------------
(* C12: one fold without a test set when there is one alpha to scan *)

\* fit went past the construction of the folds
FoldsBuilt == f_pc \in {"running", "fitted"}

\* the number of alphas a path_scores task scans
GridSize(q) ==
    IF FitAlphas(q) = NoAlphas THEN q.n_alphas ELSE Len(FitAlphas(q))

\* C12 as claimed: fit builds the single fold (train = all samples, test
\* empty) whenever the grid to scan has exactly one alpha, from `alpha`, from
\* a one-element `alphas` or from n_alphas = 1 with no alphas, and the
\* cross-validation folds when it has more.
C12_SingleFoldAsClaimed ==
    FoldsBuilt =>
        /\ f_cv = CvOnlyForSeveralAlphas(f_params)
        /\ (GridSize(f_params) = 1 <=> f_cv = SingleFold(f_params))

-----------------------------------------------------------------------------
(* C13: one task per class and fold, collected after all have returned *)

\* the sum of entry i of the best_w returned by the tasks in T
RECURSIVE SumOverTasks(_, _)
SumOverTasks(T, i) ==
    IF T = {} THEN 0
    ELSE LET t == CHOOSE x \in T : TRUE
         IN  f_tasks[t].best_w[i] + SumOverTasks(T \ {t}, i)

\* the tasks of class c
TasksOfClass(c) == {t \in DOMAIN f_tasks : f_tasks[t].key = c}

\* C13: fit dispatches exactly n_problems * n_folds path_scores tasks, one
\* per (class, fold) pair; no result is collected while a task is pending;
\* and the final weight row of class c is the sum of the best_w returned by
\* the tasks of class c divided by n_folds, in whatever order the tasks ran.
C13_BaggedAfterJoin ==
    /\ f_pc \in {"running", "fitted"} =>
          /\ Cardinality(DOMAIN f_tasks) = n_problems(f_params) * Len(f_cv)
          /\ DOMAIN f_tasks = (0..(n_problems(f_params) - 1)) \X (1..Len(f_cv))
          /\ \A t \in DOMAIN f_tasks :
                /\ f_tasks[t].key = t[1]
                /\ f_tasks[t].train = f_cv[t[2]].train
                /\ f_tasks[t].test = f_cv[t[2]].test
    /\ f_pc = "running" =>
          \A c \in DOMAIN f_w : \A i \in DOMAIN f_w[c].n : f_w[c].n[i] = 0
    /\ f_pc = "fitted" =>
          /\ \A t \in DOMAIN f_tasks : f_tasks[t].status = "returned"
          /\ DOMAIN f_w = 1..n_problems(f_params)
          /\ \A c \in DOMAIN f_w :
                /\ f_w[c].d = Len(f_cv)
                /\ DOMAIN f_w[c].n = 1..(f_params.n_features + 1)
                /\ \A i \in DOMAIN f_w[c].n :
                      f_w[c].n[i] = SumOverTasks(TasksOfClass(c - 1), i)

\* three classes on two folds, the folds of a class returning different
\* vectors and two classes ending with different rows
C13_Witness ==
    /\ f_pc = "fitted"
    /\ n_problems(f_params) = 3
    /\ Len(f_cv) = 2
    /\ f_tasks[<<0, 1>>].best_w # f_tasks[<<0, 2>>].best_w
    /\ f_w[1] # f_w[2]
    /\ f_w[1].n = <<0, 1, 3>>

-----------------------------------------------------------------------------
(* C16: screening_percentile = 100 keeps all the features *)

\* C16 as claimed: a task launched by fit performs the univariate screening
\* exactly when the mask has more than 100 features and the configured
\* screening_percentile is below 100; with screening_percentile = 100 no task
\* screens, whatever the volume of the data mask.
C16_ScreeningAsClaimed ==
    \A t \in DOMAIN f_tasks :
        f_tasks[t].status = "returned" =>
            (f_tasks[t].screened <=>
                ~(f_params.n_features <= 100
                  \/ f_params.screening_percentile >= 100))

-----------------------------------------------------------------------------
(* C14: path_scores leaves the arrays it was passed as they were *)

\* C14: whatever the tasks that share X, y and the mask have done so far
\* (copying the mask, smoothing and screening, cropping, selecting the train
\* and test rows, centring in place), the buffers of X, y and the mask hold
\* what fit passed, and no task's train or test arrays or mask live in them.
C14_InputsUntouched ==
    h_pc # <<>> =>
        /\ h_heap[XBuf] = h_args.X
        /\ h_heap[YBuf] = h_args.y
        /\ h_heap[MaskBuf] = h_args.mask
        /\ \A t \in FrameTasks :
              /\ h_pc[t] # "start" => h_env[t].mask.buf # MaskBuf
              /\ h_pc[t] \in {"center", "solve", "done"} =>
                    {h_env[t].X_train.buf, h_env[t].y_train.buf,
                     h_env[t].X_test.buf, h_env[t].y_test.buf}
                        \cap {XBuf, YBuf, MaskBuf} = {}

\* both tasks ran to the end with screening, and the centring changed the
\* train rows of the first
C14_Witness ==
    /\ h_pc # <<>>
    /\ \A t \in FrameTasks : h_pc[t] = "done"
    /\ h_env[1].X.buf # XBuf
    /\ h_env[1].mask.crop
    /\ h_args.folds[1] # h_args.folds[2]
    /\ Deref(h_heap, h_env[1].y_train) # <<h_args.y[1], h_args.y[2]>>
    /\ Deref(h_heap, h_env[1].y_train) = <<-2, 2>>

-----------------------------------------------------------------------------
(* C15: the debiased weights *)

\* C15 as claimed: with debias set, once the final re-solve is made the call
\* returns, and the reported weights are the re-solve's w times
\* <X_test.w, y_test> / ||X_test.w||^2 (w itself when that denominator is 0),
\* for regression and classification, the empty test set included.
C15_DebiasAsClaimed ==
    (p_args.debias /\ RefitMade /\ p_pc \in {"done", "error"}) =>
        /\ p_pc = "done"
        /\ \A i \in 1..Len(p_cols) :
              p_ret.best_w.n[p_cols[i]] * DebiasFactor(p_ret.solved)[2]
              = p_ret.solved[i] * DebiasFactor(p_ret.solved)[1] * p_ret.best_w.d

-----------------------------------------------------------------------------
(* C17: alpha_max of the logistic path *)

\* alpha_max as C17 describes it, for the centred training data of the call:
\* max|X^T b| with b from the class counts of the training labels, max|X^T y|
\* only when that is 0, divided by n_samples * l1_ratio
ClaimedLogisticAlphaMax ==
    LET a     == p_args
        m     == Len(a.train)
        feats == 1..Len(p_cols)
        X     == CentredX(a.X, a.train, p_cols)
        b     == LogisticB([s \in 1..m |-> a.y[a.train[s]]], 1)
        viaB  == MaxAbsXt(X, b, feats)
        raw   == IF viaB # 0 THEN viaB
                 ELSE MaxAbsXt(X, CentredY(a.y, a.train), feats)
        g     == GuardedRatio(a.l1_ratio)
    IN  Fin(raw * g[2], m * m * m * g[1])

\* C17 as claimed: on the classification path the grid path_scores generates
\* starts at that alpha_max, and every alpha of the grid is a finite number.
C17_LogisticBoundAsClaimed ==
    (p_args.is_classif /\ p_args.alphas = NoAlphas /\ p_alphas # <<>>) =>
        /\ FinEq(p_alphas[1], ClaimedLogisticAlphaMax)
        /\ \A k \in 1..Len(p_alphas) : IsFin(p_alphas[k])

-----------------------------------------------------------------------------
(* C18: the divisor of alpha_max *)

\* max(l1_ratio, 1e-3)
ClaimedRatio(r) == IF r[1] * TinyRatio[2] <= r[2] * TinyRatio[1] THEN TinyRatio ELSE r

\* C18 as claimed: the grid starts at the raw bound divided by
\* n_samples * max(l1_ratio, 1e-3), so every l1_ratio in [0, 1e-3] gives the
\* alpha_max of l1_ratio = 1e-3.
C18_DivisorAsClaimed ==
    ag_pc = "done" =>
        LET raw == RawAlphaMax(ag_in.X, 1, ag_in.y, 1, ag_in.feats,
                               ag_in.logistic)
            cr  == ClaimedRatio(ag_in.l1_ratio)
        IN  FinEq(ag_out[1],
                  Fin(raw[1] * cr[2],
                      raw[2] * Cardinality(DOMAIN ag_in.X) * cr[1]))

-----------------------------------------------------------------------------
(* C19: the label predict returns *)

\* the decision scores of the samples predict labels
C19_Scores ==
    decision_function(pr_model,
                      IF pr_model.standardize THEN _standardize_X(pr_X)
                      ELSE [s \in DOMAIN pr_X |-> Fin(pr_X[s], 1)])

\* C19: with more than two classes predict returns, for each sample, the
\* class of the largest decision score, the lowest-index class on ties; with
\* two classes it returns classes_[1] exactly when the one decision score is
\* > 0, and classes_[0] otherwise (a score of exactly 0 included).
C19_LabelByScore ==
    pr_pc = "predicted" =>
        \A s \in DOMAIN pr_X :
            LET row == C19_Scores[s]
            IN  IF Len(pr_model.classes_) = 2
                THEN /\ Len(row) = 1
                     /\ (pr_out[s] = pr_model.classes_[2])
                            <=> (IsFin(row[1]) /\ row[1].n > 0)
                     /\ (pr_out[s] = pr_model.classes_[1])
                            <=> ~(IsFin(row[1]) /\ row[1].n > 0)
                ELSE \E i \in DOMAIN row :
                        /\ pr_out[s] = pr_model.classes_[i]
                        /\ \A j \in DOMAIN row : ~FloatGt(row[j], row[i])
                        /\ \A j \in 1..(i - 1) : FloatGt(row[i], row[j])
                                                 \/ ~IsFin(row[i])

\* three classes, the two largest scores of a sample tied and the lower
\* index returned, the other sample going to the first class
C19_Witness ==
    /\ pr_pc = "predicted"
    /\ Len(pr_model.classes_) = 3
    /\ FloatEq(C19_Scores[1][2], C19_Scores[1][3])
    /\ FloatGt(C19_Scores[1][2], C19_Scores[1][1])
    /\ pr_out = <<"b", "a">>

-----------------------------------------------------------------------------
(* C20: the mfista loop ends *)

\* the first iteration at which the callback returned true or the duality
\* gap was below dgap_factor * max(1, |energy|); 0 when there was none
FirstSeen ==
    IF \E i \in DOMAIN mf_seen : mf_seen[i]
    THEN CHOOSE i \in DOMAIN mf_seen :
            mf_seen[i] /\ \A j \in 1..(i - 1) : ~mf_seen[j]
    ELSE 0

\* C20: for every combination of pure_ista, backtracking, check_monotonous
\* and dgap_factor and every callback, the loop makes at most max_iter
\* iterations and has left the loop once max_iter are made, and it makes no
\* iteration after the first one at which the callback returned true or the
\* duality gap was below dgap_factor * max(1, |energy|).
C20_LoopEnds ==
    mf_pc # "idle" =>
        /\ mf_k <= mf_cfg.max_iter
        /\ mf_k = mf_cfg.max_iter => mf_pc # "iterating"
        /\ FirstSeen # 0 => (mf_k = FirstSeen /\ mf_pc # "iterating")

\* the callback asked for the stop before max_iter, after backtracking, and
\* the solver returned
C20_Witness ==
    /\ mf_pc = "returned"
    /\ mf_cfg.max_iter = 3
    /\ mf_k = 2
    /\ mf_L > 0
    /\ FirstSeen = 2
    /\ ~GapBelow(mf_cfg, <<0, 1>>, mf_energy[2])

-----------------------------------------------------------------------------
(* C21: what mfista returns *)

\* C21: on any stop and for every combination of the flags, mfista returns
\* a triple: w of the problem's shape, the energy trajectory as a list with
\* one entry per iteration made, and a state with the keys w, t, dgap_tol
\* and stepsize (its w of the problem's shape) that a subsequent solve
\* accepts as init.
C21_ReturnedTriple ==
    mf_pc = "returned" =>
        /\ DOMAIN mf_ret = {"w", "energies", "state"}
        /\ DOMAIN mf_ret.w = 1..mf_cfg.size
        /\ DOMAIN mf_ret.energies = 1..mf_k
        /\ InitKeys \subseteq DOMAIN mf_ret.state
        /\ DOMAIN mf_ret.state.w = 1..mf_cfg.size

\* a solve started from the state of an earlier one has returned, stopped by
\* the stall of check_monotonous, with the gap test disabled and without
\* momentum
C21_Witness ==
    /\ mf_pc = "returned"
    /\ mf_warm
    /\ mf_cfg.pure_ista
    /\ mf_cfg.check_monotonous
    /\ mf_cfg.dgap_factor = NoDgap
    /\ mf_cfg.size = 2
    /\ mf_stall = StallBudget
    /\ mf_ret.state.dgap_tol = NoDgap

-----------------------------------------------------------------------------
(* C22: the Lipschitz constants bound the gradients *)

\* w - w' of the call
LipStep == [j \in DOMAIN lip_in.w |-> lip_in.w[j] - lip_in.w2[j]]

-----------------------------------------------------------------------------
(* C23: non-finite values in fit *)

\* C23 as claimed: when a non-finite value has entered the computation (X
\* standardized with a constant feature, or a task's best_w that is nan),
\* fit raises an error: it never ends fitted with nan coefficients.
C23_FailsOnNonFinite ==
    f_pc = "fitted" => \A c \in DOMAIN f_w : ~f_w[c].nan

-----------------------------------------------------------------------------
(* C24: the solves of one path_scores task *)

\* the state returned by the solve at the k-th alpha; the caller's init for
\* k = 0
StateAfter(k) == IF k = 0 THEN p_args.init ELSE p_scan[k].init

\* the scan is over and the re-solve was called
ResolveCalled == Len(p_calls) = Len(p_scan) + 1

\* the solves of the scan are sequential: the k-th is the k-th call, at the
\* k-th alpha, started from the state the (k-1)-th returned (the first from
\* the caller's init), with a new callback instance
SequentialScan ==
    /\ Len(p_calls) \in {Len(p_scan), Len(p_scan) + 1}
    /\ p_pc \in {"scan", "refit"} => Len(p_calls) = Len(p_scan)
    /\ p_pc = "done" => ResolveCalled
    /\ \A k \in 1..Len(p_scan) :
          /\ p_calls[k].alpha = p_alphas[k]
          /\ p_calls[k].init = StateAfter(k - 1)
          /\ p_calls[k].callback
          /\ p_calls[k].stopper = [counter |-> 0, test_scores |-> <<>>]
          /\ p_scan[k].init = [src |-> "solver", call |-> k]

-----------------------------------------------------------------------------
(* C25: the morphological clean-up of the screened support *)

\* the voxels of the original mask whose columns of X are retained
RetainedVoxels ==
    LET kept == {p_cols[i] : i \in DOMAIN p_cols}
    IN  {v \in p_args.mask.on : FeatureOf(p_args.mask, v) \in kept}

\* the screening of this call is done
Screened == p_pc # "start" /\ DoScreening(p_args)

\* C25 as claimed: a feature that fails the percentile cut but whose six
\* neighbours are all retained is re-admitted to the retained support, and a
\* surviving feature with no surviving neighbour is dropped.
C25_SurroundedReadmitted ==
    Screened =>
        \E retained \in {RetainedVoxels} :
            /\ \A v \in p_args.mask.on \ p_selected :
                  Nbrs(v) \subseteq retained => v \in retained
            /\ \A v \in p_selected :
                  Nbrs(v) \cap p_selected = {} => v \notin retained

\* C25 amended: the clean-up (erosion, then dilation) never re-admits a
\* feature that failed the percentile cut, even one whose six neighbours are
\* all retained: the retained support is a subset of the selector's support;
\* a surviving feature with no surviving neighbour is dropped.
C25_NeverReadmitted ==
    Screened =>
        \E retained \in {RetainedVoxels} :
            /\ retained \subseteq p_selected
            /\ \A v \in p_selected :
                  Nbrs(v) \cap p_selected = {} => v \notin retained

\* the centre voxel failed the cut, its six neighbours were selected and are
\* retained
C25_Witness ==
    /\ Screened
    /\ <<2, 2, 2>> \notin p_selected
    /\ p_selected # {}
    /\ Nbrs(<<2, 2, 2>>) \subseteq RetainedVoxels

-----------------------------------------------------------------------------
(* C26: which correlation is the primary score *)

\* the weights the scores of w are computed on: without the intercept entry
\* for classification
ScoredWeights(w) == IF p_args.is_classif THEN DropLast(w) ELSE w

\* the held-out response
HeldOutY == [s \in 1..Len(p_args.test) |-> p_args.y[p_args.test[s]]]

\* the rank and the linear correlation of the held-out prediction of w with
\* the held-out response
SpearmanOf(w) ==
    Correlation(Ranks2(Predict(p_args.X, p_args.test, p_cols, ScoredWeights(w))),
                Ranks2(HeldOutY))

PearsonOf(w) ==
    Correlation(Predict(p_args.X, p_args.test, p_cols, ScoredWeights(w)),
                HeldOutY)

-----------------------------------------------------------------------------
(* C27: the callback leaves the weights alone *)

-----------------------------------------------------------------------------
(* C30: the counter and the score list of one callback instance *)

\* C30: after n calls of one instance its counter is n and test_scores holds
\* exactly the n scores of the calls in call order (the list is never reset
\* or truncated); a new instance has counter 0 and an empty list.
C30_OneScorePerCall ==
    /\ es_ret = "init" => (es_counter = 0 /\ es_test_scores = <<>>)
    /\ es_ret # "idle" =>
          /\ es_counter = Len(es_calls)
          /\ es_test_scores = es_calls

\* thirty calls were made, the score changed once on the way
C30_Witness ==
    /\ Len(es_calls) = 30
    /\ es_calls[1] # es_calls[30]
    /\ es_counter = 30

-----------------------------------------------------------------------------
(* C28: the order of the scan *)

\* a >= b as floats (false when either is nan)
FloatGe(a, b) == FloatGt(a, b) \/ FloatEq(a, b)

\* how often x occurs in the sequence q
Occurrences(q, x) == Cardinality({i \in DOMAIN q : q[i] = x})

\* the alphas are resolved: the setup is done and did not raise
AlphasResolved == p_pc \in {"scan", "refit", "done"} \/ p_calls # <<>>

\* C28 as claimed: whatever order the caller supplied the alphas in, they are
\* scanned in non-increasing order (the k-th solve is at the k-th largest
\* alpha), exactly one primary score per alpha is recorded in that order when
\* the test set is not empty, and the default best_alpha is the largest alpha.
C28_ScanDescending ==
    AlphasResolved =>
        /\ \A k \in 1..(Len(p_alphas) - 1) : FloatGe(p_alphas[k], p_alphas[k + 1])
        /\ p_args.alphas # NoAlphas =>
              /\ Len(p_alphas) = Len(p_args.alphas)
              /\ \A i \in DOMAIN p_alphas :
                    Occurrences(p_alphas, p_alphas[i])
                        = Occurrences(p_args.alphas, p_alphas[i])
        /\ \A k \in DOMAIN p_scan :
              /\ p_calls[k].alpha = p_alphas[k]
              /\ p_test_scores[k] = p_scan[k].score
        /\ (p_pc \in {"refit", "done"} /\ Len(p_args.test) > 0) =>
              /\ Len(p_scan) = Len(p_alphas)
              /\ Len(p_test_scores) = Len(p_alphas)
        /\ p_best.at = 0 =>
              \A k \in DOMAIN p_alphas : FloatGe(p_best.alpha, p_alphas[k])

-----------------------------------------------------------------------------
(* C29: the solver and the is_classif flag against loss_ *)

\* C29 as claimed: for every loss check_params accepts (any letter case,
\* None on a classifier or a regressor), every task gets the logistic
\* adapter and is_classif true exactly when loss_ is "logistic", and a
\* squared-loss adapter with is_classif false otherwise.
C29_AgreeWithLoss ==
    f_pc \in {"running", "fitted"} =>
        \A t \in DOMAIN f_tasks :
            /\ f_tasks[t].solver.loss = loss_(f_params)
            /\ f_tasks[t].is_classif <=> (loss_(f_params) = "logistic")

====
